---- MODULE Spec2Model ----
(***************************************************************************)
(* Verification model of ic-cosmos:                                        *)
(*   - the multi-provider JSON-RPC client (ic-solana/src/rpc_client.rs),   *)
(*   - the account-response decoder and the SignDoc / Tx encoders          *)
(*     (ic-cosmos/src/types/cosmos_transaction_utils.rs),                  *)
(*   - the sendCosmosTransaction pipeline (ic-cosmos-wallet/src/main.rs),  *)
(*   - the reference protobuf build (cosmos-utils/src/lib.rs).             *)
(***************************************************************************)
EXTENDS Integers, Sequences, FiniteSets, TLC

VARIABLES
    config,          \* RpcClient.config: is_demo_active, calculator, host_validator
    phase,           \* position of RpcClient::call: idle, collecting, reduced
    budget,          \* cycles attached to the call by the caller
    cyclesAvailable, \* msg_cycles_available128()
    cyclesAccepted,  \* total passed to msg_cycles_accept128
    pending,         \* providers whose http_request is still awaited
    completed,       \* finished call_internal futures, in completion order
    httpCalls,       \* per provider: number of http_request outcalls issued
    metrics,         \* the Metrics counters
    verdict,         \* output of MultiCallResults::reduce
    result,          \* what RpcClient::call returns to its caller
    nextId,          \* thread_local NEXT_ID
    payloadId,       \* request id placed in the payload of the current call
    sentPayloads     \* per provider: the request ids of the bodies handed to http_request

rpcVars == <<config, phase, budget, cyclesAvailable, cyclesAccepted, pending,
             completed, httpCalls, metrics, verdict, result, nextId, payloadId,
             sentPayloads>>

VARIABLES
    abciInput,       \* the QueryAccountResponse handed to the decoder
    abciPc,          \* "ready" before, "done" after parse_account_info_from_abci
    abciResult       \* Result<(u64, u64), String> of the decoder

abciVars == <<abciInput, abciPc, abciResult>>

VARIABLES
    sdInput,         \* from, to, amount, account_number, sequence, public key
    sdPc,            \* "ready" before, "done" after both builds
    sdHand,          \* create_sign_doc_bytes of the same field values
    sdRef            \* create_send_transaction: (tx bytes, sign bytes)

sdVars == <<sdInput, sdPc, sdHand, sdRef>>

VARIABLES
    wPc,             \* position of send_cosmos_transaction
    wRaw,            \* its raw_transaction argument
    wPk,             \* public key returned by ecdsa_public_key
    wQuery,          \* reply of the cos_getAbciQuery call
    wTransaction,    \* the CosmosTransaction assembled from the reply
    wSignBytes,      \* bytes handed to sign_with_ecdsa
    wSigner,         \* reply of sign_with_ecdsa
    wBroadcast,      \* tx_base64 handed to cos_getBroadcastTxSync
    wCalls,          \* inter-canister calls issued so far, per callee
    wResult          \* RpcResult<String> returned to the caller

wVars == <<wPc, wRaw, wPk, wQuery, wTransaction, wSignBytes, wSigner,
           wBroadcast, wCalls, wResult>>

VARIABLES
    encInput,        \* a CosmosTransaction, a public key and a signature
    encPc,           \* "ready" before, "done" after both encoders ran
    encSignDoc,      \* Result of create_sign_doc_bytes
    encTx            \* Result of build_transaction_for_broadcast

encVars == <<encInput, encPc, encSignDoc, encTx>>

VARIABLES
    qdAddress,       \* the address whose account is queried
    qdPc,            \* "ready" before, "done" after the query data is built
    qdData           \* the `data` parameter of the abci_query request

qdVars == <<qdAddress, qdPc, qdData>>

VARIABLES
    gasTx,           \* the transaction JSON given to estimate_gas_for_transaction
    gasPc,           \* "ready", "simulating" (request sent), "done"
    gasReply,        \* the reply of the Simulate request, once received
    gasResult        \* Result<u64, _> of estimate_gas_for_transaction

gasVars == <<gasTx, gasPc, gasReply, gasResult>>

VARIABLES
    chainSequence,   \* the sequence of the wallet's account on the chain
    invocations,     \* the sendCosmosTransaction calls of one caller in flight
    signDocs         \* the sign_bytes handed to sign_with_ecdsa, in call order

seqVars == <<chainSequence, invocations, signDocs>>

VARIABLES
    rpcState,        \* the State of the ic-cosmos-rpc canister
    lastCall         \* the last call served: method, caller, arguments, the
                     \* State before it and the reply

regVars == <<rpcState, lastCall>>

VARIABLES
    NEXT_ID,         \* the thread_local request id counter
    issued           \* the ids returned by next_request_id so far, in order,
                     \* each with the client that drew it

idVars == <<NEXT_ID, issued>>

VARIABLES
    wireInput,       \* the operation, its bytes or value, and the build
    wireResult       \* what the operation returned, or that it panicked

wireVars == <<wireInput, wireResult>>

vars == <<rpcVars, abciVars, sdVars, wVars, encVars, qdVars, gasVars, seqVars, regVars, idVars, wireVars>>

----------------------------------------------------------------------------
(* Bounds *)

NumProviders == 2
MaxCycles == 5
MaxFields == 2        \* fields in a generated BaseAccount
MaxMessages == 2      \* messages in a generated CosmosTransaction
MaxAddressLen == 128  \* bytes in a queried address
NumInvocations == 2   \* concurrent sendCosmosTransaction calls of one caller
MaxSequence == 1      \* initial sequence of the account on the chain
NumClients == 2       \* RpcClient instances of the process
MaxIssued == 6        \* request ids drawn in one behaviour
IdBits == 2           \* bits of the request id counter (64 in the source)
MaxContinuation == 11 \* continuation bytes in a generated varint
MaxPayload == 3       \* bytes after a generated length varint

(* Cycles returned by the request_cost_calculator for one request *)
CyclesCost == 2
CyclesCostWithCollateral == 3

Providers == 1..NumProviders

----------------------------------------------------------------------------
(* Values *)

NoErr == [kind |-> "none", a |-> 0, b |-> 0]
RpcErr(k, x, y) == [kind |-> k, a |-> x, b |-> y]

\* RpcResult<Vec<u8>> of one call_internal
OutOk(body) == [tag |-> "Ok", body |-> body, error |-> NoErr]
OutErr(e) == [tag |-> "Err", body |-> "", error |-> e]

\* What the transport (http_request) can answer
NoRaw == [kind |-> "none", status |-> 0, body |-> "", code |-> 0]
HttpResponse(s, b) == [kind |-> "response", status |-> s, body |-> b, code |-> 0]
HttpReject(c) == [kind |-> "reject", status |-> 0, body |-> "", code |-> c]

\* Bodies: "A" and "B" are two different JSON-RPC responses, "R" is the JSON-RPC
\* rate-limit error body, "H" is an HTML page (UTF-8, not JSON), "X" is not UTF-8.
TransportResults ==
    { HttpResponse(200, "A"), HttpResponse(200, "B"), HttpResponse(429, "R"),
      HttpResponse(200, "H"), HttpResponse(200, "X"),
      HttpReject(1), HttpReject(2) }

IsUtf8(body) == body # "X"
IsJson(body) == body \in {"A", "B", "R"}
Is2xx(status) == status >= 200 /\ status < 300

Configs ==
    [ is_demo_active : BOOLEAN,
      has_calculator : BOOLEAN,
      blocked : SUBSET Providers ]   \* hosts rejected by host_validator

ZeroCount == [p \in Providers |-> 0]

EmptyMetrics ==
    [ requests |-> ZeroCount,
      responses |-> [p \in Providers |-> [s \in {200, 429} |-> 0]],
      cycles_charged |-> ZeroCount,
      err_http_outcall |-> ZeroCount,
      err_host_not_allowed |-> ZeroCount,
      inconsistent_responses |-> ZeroCount ]

Bump(f, p, n) == [f EXCEPT ![p] = @ + n]

----------------------------------------------------------------------------
(* RpcClient::call_internal up to the await of http_request.  st carries    *)
(* the cycles seen by msg_cycles_available128, the accepted total, the      *)
(* metrics, the futures already finished and the outcalls issued.           *)

RequestCost(cfg) ==
    IF cfg.has_calculator
    THEN [cost |-> CyclesCost, with_collateral |-> CyclesCostWithCollateral]
    ELSE [cost |-> 0, with_collateral |-> 0]

Finished(p, raw, out) == [p |-> p, raw |-> raw, out |-> out]

\* call_internal as it would be if every provider request drew its own request id
CallInternalStartOwnId(cfg, p, st) ==
    LET rc == RequestCost(cfg) IN
    IF p \in cfg.blocked
    THEN [st EXCEPT
            !.metrics.err_host_not_allowed = Bump(@, p, 1),
            !.completed = Append(@, Finished(p, NoRaw,
                              OutErr(RpcErr("HostNotAllowed", p, 0))))]
    ELSE IF ~cfg.is_demo_active /\ st.available < rc.with_collateral
    THEN [st EXCEPT
            !.completed = Append(@, Finished(p, NoRaw,
                              OutErr(RpcErr("InsufficientCycles", st.available,
                                            rc.with_collateral))))]
    ELSE LET paid == IF cfg.is_demo_active THEN 0 ELSE rc.cost IN
         [st EXCEPT
            !.available = @ - paid,
            !.accepted = @ + paid,
            !.metrics.cycles_charged =
                IF cfg.is_demo_active THEN @ ELSE Bump(@, p, rc.cost),
            !.metrics.requests = Bump(@, p, 1),
            !.pending = @ \cup {p},
            !.http = Bump(@, p, 1),
            !.sent[p] = Append(@, st.payload + p - 1)]

CallInternalStart(cfg, p, st) ==
    LET rc == RequestCost(cfg) IN
    IF p \in cfg.blocked
    THEN [st EXCEPT
            !.metrics.err_host_not_allowed = Bump(@, p, 1),
            !.completed = Append(@, Finished(p, NoRaw,
                              OutErr(RpcErr("HostNotAllowed", p, 0))))]
    ELSE IF ~cfg.is_demo_active /\ st.available < rc.with_collateral
    THEN [st EXCEPT
            !.completed = Append(@, Finished(p, NoRaw,
                              OutErr(RpcErr("InsufficientCycles", st.available,
                                            rc.with_collateral))))]
    ELSE LET paid == IF cfg.is_demo_active THEN 0 ELSE rc.cost IN
         [st EXCEPT
            !.available = @ - paid,
            !.accepted = @ + paid,
            !.metrics.cycles_charged =
                IF cfg.is_demo_active THEN @ ELSE Bump(@, p, rc.cost),
            !.metrics.requests = Bump(@, p, 1),
            !.pending = @ \cup {p},
            !.http = Bump(@, p, 1),
            !.sent[p] = Append(@, st.payload)]

(* RpcClient::call_internal after http_request returned raw *)
CallInternalFinish(p, raw, m) ==
    IF raw.kind = "response"
    THEN IF ~IsUtf8(raw.body)
         THEN [metrics |-> m, out |-> OutErr(RpcErr("ParseError", 0, 0))]
         ELSE [metrics |-> [m EXCEPT !.responses[p][raw.status] = @ + 1],
               out |-> OutOk(raw.body)]
    ELSE [metrics |-> [m EXCEPT !.err_http_outcall = Bump(@, p, 1)],
          out |-> OutErr(RpcErr("HttpOutcallError", raw.code, 0))]

(* RpcClient::parallel_call, first poll of join_all: every future runs, in  *)
(* provider order, up to its first await.                                   *)
RECURSIVE ParallelCallStart(_, _, _)
ParallelCallStart(cfg, p, st) ==
    IF p > NumProviders THEN st
    ELSE ParallelCallStart(cfg, p + 1, CallInternalStart(cfg, p, st))

(* join_all hands back the outputs in the order of the futures (providers), *)
(* whatever the order in which they completed.                              *)
\* join_all as it would be if outputs were yielded as they complete
JoinAllCompletionOrder(done) == [i \in 1..Len(done) |-> done[i].out]

JoinAll(done) ==
    [i \in 1..Len(done) |->
        done[CHOOSE j \in 1..Len(done) : done[j].p = i].out]

(* self.providers.iter().cloned().zip(results) *)
Zip(results) == [i \in 1..Len(results) |-> [p |-> i, out |-> results[i]]]

(* MultiCallResults::reduce with the default (equality) strategy.           *)
AllEqual(pairs) == \A i, j \in 1..Len(pairs) : pairs[i].out = pairs[j].out

NoOut == [tag |-> "none", body |-> "", error |-> NoErr]

Reduce(pairs) ==
    IF AllEqual(pairs) /\ pairs[1].out.tag = "Ok"
    THEN [kind |-> "Consistent", out |-> pairs[1].out, list |-> <<>>]
    ELSE IF AllEqual(pairs)
    THEN [kind |-> "ConsistentError", out |-> pairs[1].out, list |-> <<>>]
    ELSE [kind |-> "Inconsistent", out |-> NoOut, list |-> pairs]

(* Result<_, RpcError> seen by the caller *)
ResOk(body) == [tag |-> "Ok", body |-> body, error |-> NoErr, list |-> <<>>]
ResErr(e) == [tag |-> "Err", body |-> "", error |-> e, list |-> <<>>]
ResInconsistent(list) ==
    [tag |-> "Err", body |-> "",
     error |-> RpcErr("InconsistentResponse", 0, 0), list |-> list]

(* RpcClient::process_result.  On InconsistentResults the entries are       *)
(* mapped lazily in order: each one bumps inconsistent_responses, then       *)
(* `result?` leaves with the entry's own error if the entry is a failure.    *)
FirstFailure(list) ==
    IF \E i \in 1..Len(list) : list[i].out.tag = "Err"
    THEN CHOOSE i \in 1..Len(list) :
            /\ list[i].out.tag = "Err"
            /\ \A j \in 1..(i - 1) : list[j].out.tag = "Ok"
    ELSE 0

\* process_result as it would be if an agreed error were reported as a disagreement
ProcessResultCollapsed(v) ==
    IF v.kind = "Consistent" THEN [result |-> ResOk(v.out.body), counted |-> <<>>]
    ELSE [result |-> ResInconsistent(<<>>), counted |-> <<>>]

ProcessResult(v) ==
    IF v.kind = "Consistent" THEN [result |-> ResOk(v.out.body), counted |-> <<>>]
    ELSE IF v.kind = "ConsistentError"
    THEN [result |-> ResErr(v.out.error), counted |-> <<>>]
    ELSE LET k == FirstFailure(v.list) IN
         IF k # 0
         THEN [result |-> ResErr(v.list[k].out.error),
               counted |-> [i \in 1..k |-> v.list[i].p]]
         ELSE [result |-> ResInconsistent(
                    [i \in 1..Len(v.list) |->
                        [p |-> v.list[i].p, text |-> v.list[i].out.body]]),
               counted |-> [i \in 1..Len(v.list) |-> v.list[i].p]]

RECURSIVE BumpAll(_, _)
BumpAll(f, ps) ==
    IF ps = <<>> THEN f ELSE BumpAll(Bump(f, Head(ps), 1), Tail(ps))

(* RpcClient::call after parallel_call returned: reduce, process_result and *)
(* serde_json::from_slice of the agreed bytes.                               *)
CallFinish(done, m) ==
    LET v == Reduce(Zip(JoinAll(done)))
        pr == ProcessResult(v)
        res == IF pr.result.tag = "Ok" /\ ~IsJson(pr.result.body)
               THEN ResErr(RpcErr("ParseError", 1, 0))
               ELSE pr.result
    IN [verdict |-> v, result |-> res,
        metrics |-> [m EXCEPT !.inconsistent_responses = BumpAll(@, pr.counted)]]

NoVerdict == [kind |-> "none", out |-> NoOut, list |-> <<>>]
NoResult == [tag |-> "none", body |-> "", error |-> NoErr, list |-> <<>>]

----------------------------------------------------------------------------
(* The client *)

InitRpc ==
    /\ config \in Configs
    /\ phase = "idle"
    /\ budget = 0
    /\ cyclesAvailable = 0
    /\ cyclesAccepted = 0
    /\ pending = {}
    /\ completed = <<>>
    /\ httpCalls = ZeroCount
    /\ metrics = EmptyMetrics
    /\ verdict = NoVerdict
    /\ result = NoResult
    /\ nextId = 0
    /\ payloadId = 0
    /\ sentPayloads = [p \in Providers |-> <<>>]

(* RpcClient::call up to the first suspension of parallel_call *)
BeginCall(b) ==
    /\ phase = "idle"
    /\ \E st \in {ParallelCallStart(config, 1,
                    [available |-> b, accepted |-> 0, metrics |-> metrics,
                     completed |-> <<>>, pending |-> {}, http |-> httpCalls,
                     payload |-> nextId, sent |-> sentPayloads])} :
          /\ budget' = b
          /\ payloadId' = nextId
          /\ nextId' = nextId + 1  \* wrapping_add; one call never wraps
          /\ cyclesAvailable' = st.available
          /\ cyclesAccepted' = st.accepted
          /\ pending' = st.pending
          /\ completed' = st.completed
          /\ httpCalls' = st.http
          /\ sentPayloads' = st.sent
          /\ IF st.pending = {}
             THEN \E fin \in {CallFinish(st.completed, st.metrics)} :
                     /\ phase' = "reduced"
                     /\ verdict' = fin.verdict
                     /\ result' = fin.result
                     /\ metrics' = fin.metrics
             ELSE /\ phase' = "collecting"
                  /\ metrics' = st.metrics
                  /\ UNCHANGED <<verdict, result>>
    /\ UNCHANGED config

(* The callback of provider p's http_request; the last one to arrive lets   *)
(* join_all finish and call runs on to its return in the same step.         *)
\* the callback as it would be if the last outcome did not wake the call
RespondWithoutWakeup(p, raw) ==
    /\ phase = "collecting"
    /\ p \in pending
    /\ LET f == CallInternalFinish(p, raw, metrics)
           done == Append(completed, Finished(p, raw, f.out))
       IN /\ pending' = pending \ {p}
          /\ completed' = done
          /\ phase' = "collecting"
          /\ metrics' = f.metrics
          /\ UNCHANGED <<verdict, result>>
    /\ UNCHANGED <<config, budget, cyclesAvailable, cyclesAccepted, httpCalls,
                   nextId, payloadId, sentPayloads>>

\* the callback as it would be if call reduced the outcomes received so far
RespondReducesEarly(p, raw) ==
    /\ phase = "collecting"
    /\ p \in pending
    /\ LET f == CallInternalFinish(p, raw, metrics)
           done == Append(completed, Finished(p, raw, f.out))
           v == Reduce([i \in 1..Len(done) |-> [p |-> done[i].p, out |-> done[i].out]])
       IN /\ pending' = pending \ {p}
          /\ completed' = done
          /\ phase' = IF pending = {p} THEN "reduced" ELSE "collecting"
          /\ verdict' = v
          /\ result' = ProcessResult(v).result
          /\ metrics' = f.metrics
    /\ UNCHANGED <<config, budget, cyclesAvailable, cyclesAccepted, httpCalls,
                   nextId, payloadId, sentPayloads>>

Respond(p, raw) ==
    /\ phase = "collecting"
    /\ p \in pending
    /\ \E f \in {CallInternalFinish(p, raw, metrics)} :
       \E done \in {Append(completed, Finished(p, raw, f.out))} :
          /\ pending' = pending \ {p}
          /\ completed' = done
          /\ IF pending = {p}
             THEN \E fin \in {CallFinish(done, f.metrics)} :
                     /\ phase' = "reduced"
                     /\ verdict' = fin.verdict
                     /\ result' = fin.result
                     /\ metrics' = fin.metrics
             ELSE /\ phase' = "collecting"
                  /\ metrics' = f.metrics
                  /\ UNCHANGED <<verdict, result>>
    /\ UNCHANGED <<config, budget, cyclesAvailable, cyclesAccepted, httpCalls,
                   nextId, payloadId, sentPayloads>>

----------------------------------------------------------------------------
(* Wire primitives of cosmos_transaction_utils.rs.  Bytes are 0..255,       *)
(* byte strings are sequences, a cursor counts the bytes already consumed.  *)

RECURSIVE Pow2(_)
Pow2(n) == IF n = 0 THEN 1 ELSE 2 * Pow2(n - 1)

RECURSIVE Concat(_)
Concat(ss) == IF ss = <<>> THEN <<>> ELSE Head(ss) \o Concat(Tail(ss))

(* encode_varint *)
RECURSIVE encode_varint(_)
encode_varint(value) ==
    IF value >= 128
    THEN <<(value % 128) + 128>> \o encode_varint(value \div 128)
    ELSE <<value>>

(* encode_length_delimited, encode_string, encode_uint64 *)
encode_length_delimited(tag, data) == <<tag>> \o encode_varint(Len(data)) \o data
encode_string(tag, value) == encode_length_delimited(tag, value)
encode_uint64(tag, value) == <<tag>> \o encode_varint(value)

DecodeErr(msg, pos) == [ok |-> FALSE, err |-> msg, value |-> 0, bytes |-> <<>>, pos |-> pos]

(* read_varint: the closure of parse_account_info_from_abci.  The inputs of *)
(* this model keep value below 2^31, so the u64 truncation of `<< shift`    *)
(* never applies.                                                           *)
RECURSIVE read_varint_loop(_, _, _, _)
read_varint_loop(data, pos, value, shift) ==
    IF pos >= Len(data)
    THEN DecodeErr("Unexpected end of data while reading varint", pos)
    ELSE LET byte == data[pos + 1]
             v == value + (byte % 128) * Pow2(shift)
         IN IF byte < 128
            THEN [ok |-> TRUE, err |-> "", value |-> v, bytes |-> <<>>, pos |-> pos + 1]
            ELSE IF shift + 7 >= 64
            THEN DecodeErr("Varint too long", pos + 1)
            ELSE read_varint_loop(data, pos + 1, v, shift + 7)

read_varint(data, pos) == read_varint_loop(data, pos, 0, 0)

(* read_bytes *)
read_bytes(data, pos) ==
    LET l == read_varint(data, pos) IN
    IF ~l.ok THEN l
    ELSE IF l.pos + l.value > Len(data)
    THEN DecodeErr("Length exceeds remaining data", l.pos)
    ELSE [ok |-> TRUE, err |-> "", value |-> 0,
          bytes |-> SubSeq(data, l.pos + 1, l.pos + l.value),
          pos |-> l.pos + l.value]

EndsWith(str, suffix) ==
    /\ Len(str) >= Len(suffix)
    /\ SubSeq(str, Len(str) - Len(suffix) + 1, Len(str)) = suffix

STR_BaseAccount == <<66, 97, 115, 101, 65, 99, 99, 111, 117, 110, 116>>
STR_TypeBaseAccount == <<47, 99, 111, 115, 109, 111, 115, 46, 97, 117, 116, 104, 46, 118, 49, 98, 101, 116, 97, 49, 46, 66, 97, 115, 101, 65, 99, 99, 111, 117, 110, 116>>
STR_TypeVestingAccount == <<47, 99, 111, 115, 109, 111, 115, 46, 118, 101, 115, 116, 105, 110, 103, 46, 118, 49, 98, 101, 116, 97, 49, 46, 67, 111, 110, 116, 105, 110, 117, 111, 117, 115, 86, 101, 115, 116, 105, 110, 103, 65, 99, 99, 111, 117, 110, 116>>

----------------------------------------------------------------------------
(* parse_account_info_from_abci *)

AcctErr(msg) == [ok |-> FALSE, err |-> msg, account_number |-> 0, sequence |-> 0]
AcctOk(a, s) == [ok |-> TRUE, err |-> "", account_number |-> a, sequence |-> s]

(* the loop over the BaseAccount bytes, lines 175-216; st holds ba_cursor,  *)
(* account_number and sequence                                               *)
RECURSIVE parse_base_account(_, _)
parse_base_account(data, st) ==
    IF st.cursor >= Len(data) THEN st
    ELSE LET ba_tag == data[st.cursor + 1]
             c == st.cursor + 1
             ba_field == ba_tag \div 8
             ba_wire == ba_tag % 8
             skip == IF ba_wire = 2 THEN read_bytes(data, c) ELSE read_varint(data, c)
         IN IF (ba_field \in {1, 2} /\ ba_wire = 2) \/
               (ba_field \in {3, 4} /\ ba_wire = 0) \/
               (ba_field \notin {1, 2, 3, 4} /\ ba_wire \in {0, 2})
            THEN IF ~skip.ok
                 THEN [st EXCEPT !.ok = FALSE, !.err = skip.err]
                 ELSE parse_base_account(data,
                        [st EXCEPT !.cursor = skip.pos,
                                   !.account_number =
                                        IF ba_field = 3 THEN skip.value ELSE @,
                                   !.sequence =
                                        IF ba_field = 4 THEN skip.value ELSE @])
            \* any other wire type: nothing is consumed, the loop goes on
            ELSE parse_base_account(data, [st EXCEPT !.cursor = c])

(* the loop over the Any bytes, lines 139-167; st holds any_cursor and      *)
(* base_account_bytes                                                        *)
RECURSIVE parse_any(_, _)
parse_any(data, st) ==
    IF st.cursor >= Len(data) THEN st
    ELSE LET any_tag == data[st.cursor + 1]
             c == st.cursor + 1
             any_field == any_tag \div 8
             any_wire == any_tag % 8
             rb == read_bytes(data, c)
             rv == read_varint(data, c)
         IN IF any_field = 1 /\ any_wire = 2
            THEN IF ~rb.ok THEN [st EXCEPT !.ok = FALSE, !.err = rb.err]
                 ELSE IF ~EndsWith(rb.bytes, STR_BaseAccount)
                 THEN [st EXCEPT !.ok = FALSE, !.err = "Unexpected account type"]
                 ELSE parse_any(data, [st EXCEPT !.cursor = rb.pos])
            ELSE IF any_field = 2 /\ any_wire = 2
            THEN IF ~rb.ok THEN [st EXCEPT !.ok = FALSE, !.err = rb.err]
                 ELSE parse_any(data, [st EXCEPT !.cursor = rb.pos,
                                                 !.has_value = TRUE,
                                                 !.value = rb.bytes])
            ELSE IF any_wire = 2
            THEN IF ~rb.ok THEN [st EXCEPT !.ok = FALSE, !.err = rb.err]
                 ELSE parse_any(data, [st EXCEPT !.cursor = rb.pos])
            ELSE IF any_wire = 0
            THEN IF ~rv.ok THEN [st EXCEPT !.ok = FALSE, !.err = rv.err]
                 ELSE parse_any(data, [st EXCEPT !.cursor = rv.pos])
            ELSE [st EXCEPT !.ok = FALSE,
                            !.err = "Unsupported wire type in Any message"]

(* the loop over the QueryAccountResponse bytes, lines 119-236 *)
RECURSIVE parse_query_account_response(_, _)
parse_query_account_response(decoded, cursor) ==
    IF cursor >= Len(decoded)
    THEN AcctErr("No valid account found in response")
    ELSE LET tag == decoded[cursor + 1]
             c == cursor + 1
             field_number == tag \div 8
             wire_type == tag % 8
             rb == read_bytes(decoded, c)
             rv == read_varint(decoded, c)
         IN IF field_number = 1 /\ wire_type = 2
            THEN IF ~rb.ok THEN AcctErr(rb.err)
                 ELSE LET any == parse_any(rb.bytes,
                                   [ok |-> TRUE, err |-> "", cursor |-> 0,
                                    has_value |-> FALSE, value |-> <<>>])
                      IN IF ~any.ok THEN AcctErr(any.err)
                         ELSE IF any.has_value
                         THEN LET ba == parse_base_account(any.value,
                                           [ok |-> TRUE, err |-> "", cursor |-> 0,
                                            account_number |-> 0, sequence |-> 0])
                              IN IF ~ba.ok THEN AcctErr(ba.err)
                                 ELSE IF ba.account_number = 0
                                 THEN AcctErr("Account does not exist (account_number is 0)")
                                 ELSE AcctOk(ba.account_number, ba.sequence)
                         ELSE parse_query_account_response(decoded, rb.pos)
            ELSE IF wire_type = 2
            THEN IF ~rb.ok THEN AcctErr(rb.err)
                 ELSE parse_query_account_response(decoded, rb.pos)
            ELSE IF wire_type = 0
            THEN IF ~rv.ok THEN AcctErr(rv.err)
                 ELSE parse_query_account_response(decoded, rv.pos)
            ELSE AcctErr("Unsupported wire type in QueryAccountResponse")

(* response_value is the base64 text of the ABCI response: STANDARD.decode  *)
(* either fails or yields the bytes.                                        *)
parse_account_info_from_abci(response_value) ==
    IF ~response_value.base64_ok
    THEN AcctErr("Failed to decode base64 response")
    ELSE parse_query_account_response(response_value.bytes, 0)

----------------------------------------------------------------------------
(* The message encoders of cosmos_transaction_utils.rs.  A JSON string that *)
(* may be missing is [some, s]; a JSON "amount" is [kind, coins] with kind   *)
(* "array", "object" or "missing".                                           *)

STR_MsgSend == <<47, 99, 111, 115, 109, 111, 115, 46, 98, 97, 110, 107, 46, 118, 49, 98, 101, 116, 97, 49, 46, 77, 115, 103, 83, 101, 110, 100>>
STR_MsgDelegate == <<47, 99, 111, 115, 109, 111, 115, 46, 115, 116, 97, 107, 105, 110, 103, 46, 118, 49, 98, 101, 116, 97, 49, 46, 77, 115, 103, 68, 101, 108, 101, 103, 97, 116, 101>>
STR_MsgUndelegate == <<47, 99, 111, 115, 109, 111, 115, 46, 115, 116, 97, 107, 105, 110, 103, 46, 118, 49, 98, 101, 116, 97, 49, 46, 77, 115, 103, 85, 110, 100, 101, 108, 101, 103, 97, 116, 101>>
STR_MsgBeginRedelegate == <<47, 99, 111, 115, 109, 111, 115, 46, 115, 116, 97, 107, 105, 110, 103, 46, 118, 49, 98, 101, 116, 97, 49, 46, 77, 115, 103, 66, 101, 103, 105, 110, 82, 101, 100, 101, 108, 101, 103, 97, 116, 101>>
STR_MsgWithdrawDelegatorReward == <<47, 99, 111, 115, 109, 111, 115, 46, 100, 105, 115, 116, 114, 105, 98, 117, 116, 105, 111, 110, 46, 118, 49, 98, 101, 116, 97, 49, 46, 77, 115, 103, 87, 105, 116, 104, 100, 114, 97, 119, 68, 101, 108, 101, 103, 97, 116, 111, 114, 82, 101, 119, 97, 114, 100>>
STR_MsgVote == <<47, 99, 111, 115, 109, 111, 115, 46, 103, 111, 118, 46, 118, 49, 98, 101, 116, 97, 49, 46, 77, 115, 103, 86, 111, 116, 101>>
STR_PubKey == <<47, 99, 111, 115, 109, 111, 115, 46, 99, 114, 121, 112, 116, 111, 46, 115, 101, 99, 112, 50, 53, 54, 107, 49, 46, 80, 117, 98, 75, 101, 121>>
STR_uatom == <<117, 97, 116, 111, 109>>
STR_provider == <<112, 114, 111, 118, 105, 100, 101, 114>>

Some(str) == [some |-> TRUE, s |-> str]
None == [some |-> FALSE, s |-> <<>>]

EncOk(bytes) == [ok |-> TRUE, err |-> "", bytes |-> bytes]
EncErr(msg) == [ok |-> FALSE, err |-> msg, bytes |-> <<>>]

(* the coin loop of encode_msg_send: each coin is emitted under tag *)
RECURSIVE encode_coins(_, _)
encode_coins(coins, tag) ==
    IF coins = <<>> THEN EncOk(<<>>)
    ELSE LET coin == Head(coins)
             rest == encode_coins(Tail(coins), tag)
         IN IF ~coin.denom.some THEN EncErr("Missing denom in coin")
            ELSE IF ~coin.amount.some THEN EncErr("Missing amount in coin")
            ELSE IF ~rest.ok THEN rest
            ELSE EncOk(encode_length_delimited(tag,
                            encode_string(10, coin.denom.s) \o
                            encode_string(18, coin.amount.s)) \o rest.bytes)

encode_msg_send(value) ==
    IF ~value.from_address.some THEN EncErr("Missing from_address in MsgSend")
    ELSE IF ~value.to_address.some THEN EncErr("Missing to_address in MsgSend")
    ELSE IF value.amount.kind # "array" THEN EncErr("Missing amount array in MsgSend")
    ELSE LET cs == encode_coins(value.amount.coins, 26) IN
         IF ~cs.ok THEN cs
         ELSE EncOk(encode_string(10, value.from_address.s) \o
                    encode_string(18, value.to_address.s) \o cs.bytes)

(* encode_msg_delegate and encode_msg_undelegate have the same body, up to  *)
(* the message name in the error text.  `amount` is a serde_json Map there: *)
(* indexing it with an absent key panics, so ~coin.denom.some stands for a  *)
(* key that is present and not a string.                                    *)
encode_msg_delegate(value) ==
    IF ~value.delegator_address.some THEN EncErr("Missing delegator_address")
    ELSE IF ~value.validator_address.some THEN EncErr("Missing validator_address")
    ELSE IF value.amount.kind # "object" THEN EncErr("Missing amount object")
    ELSE LET coin == value.amount.coins[1] IN
         IF ~coin.denom.some THEN EncErr("Missing denom in amount")
         ELSE IF ~coin.amount.some THEN EncErr("Missing amount value")
         ELSE EncOk(encode_string(10, value.delegator_address.s) \o
                    encode_string(18, value.validator_address.s) \o
                    encode_length_delimited(26,
                        encode_string(10, coin.denom.s) \o
                        encode_string(18, coin.amount.s)))

encode_msg_undelegate(value) == encode_msg_delegate(value)

encode_msg_begin_redelegate(value) ==
    IF ~value.delegator_address.some THEN EncErr("Missing delegator_address")
    ELSE IF ~value.validator_src_address.some THEN EncErr("Missing validator_src_address")
    ELSE IF ~value.validator_dst_address.some THEN EncErr("Missing validator_dst_address")
    ELSE IF value.amount.kind # "object" THEN EncErr("Missing amount object")
    ELSE LET coin == value.amount.coins[1] IN
         IF ~coin.denom.some THEN EncErr("Missing denom in amount")
         ELSE IF ~coin.amount.some THEN EncErr("Missing amount value")
         ELSE EncOk(encode_string(10, value.delegator_address.s) \o
                    encode_string(18, value.validator_src_address.s) \o
                    encode_string(26, value.validator_dst_address.s) \o
                    encode_length_delimited(34,
                        encode_string(10, coin.denom.s) \o
                        encode_string(18, coin.amount.s)))

encode_msg_withdraw_delegator_reward(value) ==
    IF ~value.delegator_address.some THEN EncErr("Missing delegator_address")
    ELSE IF ~value.validator_address.some THEN EncErr("Missing validator_address")
    ELSE EncOk(encode_string(10, value.delegator_address.s) \o
               encode_string(18, value.validator_address.s))

\* an unknown type_url encoded as an empty value
encode_message_to_protobuf_lenient(message) ==
    IF message.type_url = STR_MsgSend THEN encode_msg_send(message.value)
    ELSE EncOk(<<>>)

encode_message_to_protobuf(message) ==
    IF message.type_url = STR_MsgSend THEN encode_msg_send(message.value)
    ELSE IF message.type_url = STR_MsgDelegate THEN encode_msg_delegate(message.value)
    ELSE IF message.type_url = STR_MsgUndelegate THEN encode_msg_undelegate(message.value)
    ELSE IF message.type_url = STR_MsgBeginRedelegate
    THEN encode_msg_begin_redelegate(message.value)
    ELSE IF message.type_url = STR_MsgWithdrawDelegatorReward
    THEN encode_msg_withdraw_delegator_reward(message.value)
    \* format!("Unsupported message type: {}", message.type_url)
    ELSE EncErr("Unsupported message type") @@ [type_url |-> message.type_url]

(* the message loop shared by create_sign_doc_bytes and                     *)
(* build_transaction_for_broadcast: every message wrapped in an Any          *)
RECURSIVE encode_messages(_)
encode_messages(messages) ==
    IF messages = <<>> THEN EncOk(<<>>)
    ELSE LET message == Head(messages)
             msg == encode_message_to_protobuf(message)
             rest == encode_messages(Tail(messages))
         IN IF ~msg.ok THEN msg
            ELSE IF ~rest.ok THEN rest
            ELSE EncOk(encode_length_delimited(10,
                            encode_string(10, message.type_url) \o
                            encode_length_delimited(18, msg.bytes)) \o rest.bytes)

RECURSIVE encode_fee_coins(_)
encode_fee_coins(fee) ==
    IF fee = <<>> THEN <<>>
    ELSE encode_length_delimited(10,
            encode_string(10, Head(fee).denom) \o
            encode_string(18, Head(fee).amount)) \o encode_fee_coins(Tail(fee))

\* the TxBody with the memo left out
tx_body_bytes_without_memo(transaction, msgs) == msgs \o encode_uint64(24, 0)

tx_body_bytes(transaction, msgs) ==
    msgs \o encode_string(18, transaction.memo) \o encode_uint64(24, 0)

auth_info_bytes(transaction, public_key) ==
    LET pub_key_bytes == encode_length_delimited(10, public_key)
        pub_key_any_bytes == encode_string(10, STR_PubKey) \o
                             encode_length_delimited(18, pub_key_bytes)
        fee_bytes == encode_fee_coins(transaction.fee) \o
                     encode_uint64(16, transaction.gas_limit) \o
                     encode_string(26, <<>>) \o encode_string(34, <<>>)
        mode_info_single_bytes == encode_uint64(8, 1)
        mode_info_bytes == encode_length_delimited(10, mode_info_single_bytes)
        signer_info_bytes == encode_length_delimited(10, pub_key_any_bytes) \o
                             encode_length_delimited(18, mode_info_bytes) \o
                             encode_uint64(24, transaction.sequence)
    IN encode_length_delimited(10, signer_info_bytes) \o
       encode_length_delimited(18, fee_bytes)

(* create_sign_doc_bytes *)
create_sign_doc_bytes(transaction, public_key) ==
    LET msgs == encode_messages(transaction.messages) IN
    IF ~msgs.ok THEN msgs
    ELSE EncOk(encode_length_delimited(10, tx_body_bytes(transaction, msgs.bytes)) \o
               encode_length_delimited(18, auth_info_bytes(transaction, public_key)) \o
               encode_string(26, transaction.chain_id) \o
               encode_uint64(32, transaction.account_number))

(* base64 STANDARD.encode: the text is the sequence of alphabet indices     *)
(* 0..63, with 64 for the padding character '='                             *)
Base64Sextet(bytes, k) ==
    LET n == Len(bytes)
        byte(i) == IF i <= n THEN bytes[i] ELSE 0
        g == (k - 1) \div 4
        j == (k - 1) % 4
        b1 == byte(3 * g + 1)
        b2 == byte(3 * g + 2)
        b3 == byte(3 * g + 3)
    IN IF j = 0 THEN b1 \div 4
       ELSE IF j = 1 THEN (b1 % 4) * 16 + b2 \div 16
       ELSE IF j = 2
       THEN IF 3 * g + 2 > n THEN 64 ELSE (b2 % 16) * 4 + b3 \div 64
       ELSE IF 3 * g + 3 > n THEN 64 ELSE b3 % 64

\* b ranges over the one value of bytes, so that the input is built once
Base64Encode(bytes) ==
    CHOOSE text \in { [k \in 1..(4 * ((Len(b) + 2) \div 3)) |-> Base64Sextet(b, k)] :
                         b \in {bytes} } : TRUE

(* build_transaction_for_broadcast *)
\* build_transaction_for_broadcast as it would be if it left the memo out of the body
build_transaction_for_broadcast_without_memo(transaction, public_key, signature) ==
    LET msgs == encode_messages(transaction.messages) IN
    IF ~msgs.ok THEN msgs
    ELSE EncOk(Base64Encode(
            encode_length_delimited(10, tx_body_bytes_without_memo(transaction, msgs.bytes)) \o
            encode_length_delimited(18, auth_info_bytes(transaction, public_key)) \o
            encode_length_delimited(26, signature)))

build_transaction_for_broadcast(transaction, public_key, signature) ==
    LET msgs == encode_messages(transaction.messages) IN
    IF ~msgs.ok THEN msgs
    ELSE EncOk(Base64Encode(
            encode_length_delimited(10, tx_body_bytes(transaction, msgs.bytes)) \o
            encode_length_delimited(18, auth_info_bytes(transaction, public_key)) \o
            encode_length_delimited(26, signature)))

----------------------------------------------------------------------------
(* cosmos-utils create_send_transaction: the prost (proto3) encoding.  A    *)
(* scalar field holding its default value is not emitted; a message that is *)
(* Some(..), a oneof member and every element of a repeated field are.      *)

ProstString(tag, str) == IF str = <<>> THEN <<>> ELSE encode_length_delimited(tag, str)
ProstBytes(tag, bytes) == ProstString(tag, bytes)
ProstUint64(tag, v) == IF v = 0 THEN <<>> ELSE <<tag>> \o encode_varint(v)
ProstMessage(tag, body) == encode_length_delimited(tag, body)

\* u64::to_string
RECURSIVE ToDecimal(_)
ToDecimal(n) ==
    IF n < 10 THEN <<48 + n>> ELSE ToDecimal(n \div 10) \o <<48 + (n % 10)>>

SendGasLimit == 200000
SendFeeAmount == 1000
SignModeDirect == 1

ProstCoin(denom, amount) == ProstString(10, denom) \o ProstString(18, amount)

ProstAny(type_url, value) == ProstString(10, type_url) \o ProstBytes(18, value)

ProstTxBody(from_address, to_address, amount) ==
    LET msg_send == ProstString(10, from_address) \o ProstString(18, to_address) \o
                    ProstMessage(26, ProstCoin(STR_uatom, ToDecimal(amount)))
    IN ProstMessage(10, ProstAny(STR_MsgSend, msg_send)) \o
       ProstString(18, <<>>) \o ProstUint64(24, 0)

ProstAuthInfo(public_key, sequence) ==
    LET pub_key_any == ProstAny(STR_PubKey, ProstBytes(10, public_key))
        fee == ProstMessage(10, ProstCoin(STR_uatom, ToDecimal(SendFeeAmount))) \o
               ProstUint64(16, SendGasLimit) \o
               ProstString(26, <<>>) \o ProstString(34, <<>>)
        mode_info == ProstMessage(10, ProstUint64(8, SignModeDirect))
        signer_info == ProstMessage(10, pub_key_any) \o
                       ProstMessage(18, mode_info) \o
                       ProstUint64(24, sequence)
    IN ProstMessage(10, signer_info) \o ProstMessage(18, fee)

NoSignature == [some |-> FALSE, s |-> <<>>]

(* create_send_transaction; public_key and (account_number, sequence) are   *)
(* what get_public_key_from_canister and get_account_info returned          *)
create_send_transaction(from_address, to_address, amount, signature, public_key, account_number, sequence) ==
    LET body == ProstTxBody(from_address, to_address, amount)
        auth == ProstAuthInfo(public_key, sequence)
        sign_bytes == ProstBytes(10, body) \o ProstBytes(18, auth) \o
                      ProstString(26, STR_provider) \o
                      ProstUint64(32, account_number)
        tx == ProstMessage(10, body) \o ProstMessage(18, auth)
    IN IF signature.some /\ Len(signature.s) < 64
       THEN [ok |-> FALSE, err |-> "Signature too short", tx_bytes |-> <<>>,
             sign_bytes |-> <<>>]
       ELSE [ok |-> TRUE, err |-> "",
             tx_bytes |-> IF signature.some
                          THEN tx \o encode_length_delimited(26, SubSeq(signature.s, 1, 64))
                          ELSE tx,
             sign_bytes |-> sign_bytes]

----------------------------------------------------------------------------
(* The same send built by hand and by the reference *)

NoValue ==
    [ from_address |-> None, to_address |-> None, delegator_address |-> None,
      validator_address |-> None, validator_src_address |-> None,
      validator_dst_address |-> None, amount |-> [kind |-> "missing", coins |-> <<>>] ]

Coin(denom, amount) == [denom |-> denom, amount |-> amount]

SendTransaction(in) ==
    [ messages |-> << [ type_url |-> STR_MsgSend,
                        value |-> [NoValue EXCEPT
                            !.from_address = Some(in.from),
                            !.to_address = Some(in.to),
                            !.amount = [kind |-> "array",
                                        coins |-> <<Coin(Some(STR_uatom),
                                                         Some(ToDecimal(in.amount)))>>]] ] >>,
      fee |-> <<Coin(STR_uatom, ToDecimal(SendFeeAmount))>>,
      gas_limit |-> SendGasLimit,
      memo |-> <<>>,
      chain_id |-> STR_provider,
      account_number |-> in.account_number,
      sequence |-> in.sequence ]

SdInputs ==
    [ from : {<<97>>, <<99, 49>>},
      to : {<<98>>},
      amount : {0, 7, 1000},
      account_number : {1, 5, 300},
      sequence : {0, 2, 200},
      pk : {<<2, 1>>, <<3, 255, 0>>} ]

IdleSd ==
    /\ sdInput = [from |-> <<>>, to |-> <<>>, amount |-> 0, account_number |-> 0,
                  sequence |-> 0, pk |-> <<>>]
    /\ sdPc = "idle"
    /\ sdHand = EncErr("")
    /\ sdRef = [ok |-> FALSE, err |-> "", tx_bytes |-> <<>>, sign_bytes |-> <<>>]

InitSd ==
    /\ sdInput \in SdInputs
    /\ sdPc = "ready"
    /\ sdHand = EncErr("")
    /\ sdRef = [ok |-> FALSE, err |-> "", tx_bytes |-> <<>>, sign_bytes |-> <<>>]

BuildSignDocs ==
    /\ sdPc = "ready"
    /\ sdHand' = create_sign_doc_bytes(SendTransaction(sdInput), sdInput.pk)
    /\ sdRef' = create_send_transaction(sdInput.from, sdInput.to, sdInput.amount,
                                        NoSignature, sdInput.pk,
                                        sdInput.account_number, sdInput.sequence)
    /\ sdPc' = "done"
    /\ UNCHANGED sdInput

----------------------------------------------------------------------------
(* Helpers of send_cosmos_transaction (ic-cosmos-wallet/src/main.rs) *)

STR_cosmos1 == <<99, 111, 115, 109, 111, 115, 49>>

\* public_key_to_cosmos_address: bech32 of ripemd160(sha256(key)); the hash
\* is kept abstract as an injective function of the key.
public_key_to_cosmos_address(pk) == STR_cosmos1 \o pk

(* extract_signer_address_from_message *)
extract_signer_address_from_message(message) ==
    IF message.type_url = STR_MsgSend
    THEN IF message.value.from_address.some
         THEN EncOk(message.value.from_address.s)
         ELSE EncErr("Missing from_address in MsgSend")
    ELSE IF message.type_url \in {STR_MsgDelegate, STR_MsgUndelegate,
                                  STR_MsgBeginRedelegate,
                                  STR_MsgWithdrawDelegatorReward}
    THEN IF message.value.delegator_address.some
         THEN EncOk(message.value.delegator_address.s)
         ELSE EncErr("Missing delegator_address in staking/distribution message")
    ELSE EncErr("Unsupported message type for signer extraction")

WErr(msg) == [tag |-> "Err", msg |-> msg, hash |-> ""]
WOk(hash) == [tag |-> "Ok", msg |-> "", hash |-> hash]
WNone == [tag |-> "none", msg |-> "", hash |-> ""]

(* lines 102-134: the JSON checks made before the first await *)
parse_messages(raw) ==
    IF ~raw.json_ok THEN WErr("Failed to parse transaction")
    ELSE IF ~raw.messages.present THEN WErr("Missing messages array in transaction body")
    ELSE IF raw.messages.list = <<>>
    THEN WErr("Transaction must contain at least one message")
    ELSE IF \E i \in 1..Len(raw.messages.list) : ~raw.messages.list[i].type.some
    THEN WErr("Missing @type field in message")
    ELSE WNone

cosmos_messages(raw) ==
    [i \in 1..Len(raw.messages.list) |->
        [type_url |-> raw.messages.list[i].type.s, value |-> raw.messages.list[i].value]]

(* lines 144-155: every message's signer must be our address *)
RECURSIVE verify_signers(_, _)
verify_signers(messages, our_cosmos_address) ==
    IF messages = <<>> THEN WNone
    ELSE LET signer == extract_signer_address_from_message(Head(messages)) IN
         IF ~signer.ok THEN WErr(signer.err)
         ELSE IF signer.bytes # our_cosmos_address
         THEN WErr("Message signer address does not match our wallet address")
         ELSE verify_signers(Tail(messages), our_cosmos_address)

(* lines 176-204: from the reply of the query to (account_number, sequence) *)
account_info(q) ==
    IF q.kind = "reject" THEN AcctErr("Failed to call abci_query")
    ELSE IF q.kind = "rpc_err" THEN AcctErr("rpc error")
    ELSE IF q.code = 0
    THEN IF q.value.empty THEN AcctErr("Empty response value from ABCI query")
         ELSE LET a == parse_account_info_from_abci(q.value) IN
              IF a.ok THEN a ELSE AcctErr("Failed to parse account info")
    ELSE AcctErr("ABCI query failed with code")

(* lines 206-221: the fee coins *)
fee_coins(raw) ==
    IF ~raw.fee.present THEN EncErr("Missing fee amount")
    ELSE IF \E i \in 1..Len(raw.fee.coins) : ~raw.fee.coins[i].denom.some
    THEN EncErr("Missing fee denom")
    ELSE IF \E i \in 1..Len(raw.fee.coins) : ~raw.fee.coins[i].amount.some
    THEN EncErr("Missing fee amount")
    ELSE EncOk([i \in 1..Len(raw.fee.coins) |->
                  Coin(raw.fee.coins[i].denom.s, raw.fee.coins[i].amount.s)])

DefaultGasLimit == 200000
SignatureLength == 64

\* lines 250-257 without the truncation
signature_gate_untruncated(signature) ==
    IF Len(signature) >= SignatureLength
    THEN EncOk(signature)
    ELSE EncErr("Signature too short")

(* lines 249-257: the signature is cut to its first 64 bytes *)
signature_gate(signature) ==
    IF Len(signature) >= SignatureLength
    THEN EncOk(SubSeq(signature, 1, SignatureLength))
    ELSE EncErr("Signature too short")

----------------------------------------------------------------------------
(* Account responses given to the decoder: protobuf messages built field by *)
(* field.  A field is [num, wire, value, payload]; wire 0 carries value,    *)
(* wire 2 and wire 5 (fixed32) carry payload.                               *)

Field(n, w, v, pl) == [num |-> n, wire |-> w, value |-> v, payload |-> pl]

EncodeField(f) ==
    encode_varint(f.num * 8 + f.wire) \o
        ( IF f.wire = 0 THEN encode_varint(f.value)
          ELSE IF f.wire = 2 THEN encode_varint(Len(f.payload)) \o f.payload
          ELSE f.payload )

RECURSIVE EncodeFields(_)
EncodeFields(fs) ==
    IF fs = <<>> THEN <<>> ELSE EncodeField(Head(fs)) \o EncodeFields(Tail(fs))

BaseAccountFields ==
    { Field(1, 2, 0, <<24, 7>>),          \* address
      Field(3, 0, 0, <<>>),               \* account_number = 0
      Field(3, 0, 5, <<>>),               \* account_number = 5
      Field(3, 0, 300, <<>>),             \* account_number = 300
      Field(4, 0, 9, <<>>),               \* sequence = 9
      Field(5, 5, 0, <<24, 7, 0, 0>>) }   \* an unknown fixed32 field

BaseAccounts ==
    UNION { [1..n -> BaseAccountFields] : n \in 0..MaxFields }

AbciInputs ==
    [ top : {"account", "none", "other"},
      any : {"full", "novalue", "wrongtype"},
      fields : BaseAccounts,
      base64_ok : BOOLEAN ]

AnyBytes(in) ==
    IF in.any = "full"
    THEN encode_string(10, STR_TypeBaseAccount) \o
         encode_length_delimited(18, EncodeFields(in.fields))
    ELSE IF in.any = "novalue"
    THEN encode_string(10, STR_TypeBaseAccount)
    ELSE encode_string(10, STR_TypeVestingAccount) \o
         encode_length_delimited(18, EncodeFields(in.fields))

ResponseValue(in) ==
    [ base64_ok |-> in.base64_ok,
      bytes |-> IF in.top = "account" THEN encode_length_delimited(10, AnyBytes(in))
                ELSE IF in.top = "other" THEN <<16, 1>>
                ELSE <<>> ]

\* the value a protobuf decoder gives varint field n of the message
RECURSIVE FieldValue(_, _)
FieldValue(fs, n) ==
    IF fs = <<>> THEN 0
    ELSE LET f == fs[Len(fs)] IN
         IF f.num = n /\ f.wire = 0 THEN f.value
         ELSE FieldValue(SubSeq(fs, 1, Len(fs) - 1), n)

IdleAbci ==
    /\ abciInput = [top |-> "none", any |-> "full", fields |-> <<>>, base64_ok |-> TRUE]
    /\ abciPc = "idle"
    /\ abciResult = AcctErr("")

InitAbci ==
    /\ abciInput \in AbciInputs
    /\ abciPc = "ready"
    /\ abciResult = AcctErr("")

ParseAccount ==
    /\ abciPc = "ready"
    /\ abciResult' = parse_account_info_from_abci(ResponseValue(abciInput))
    /\ abciPc' = "done"
    /\ UNCHANGED abciInput

----------------------------------------------------------------------------
(* send_cosmos_transaction, one action per stretch between two awaits *)

WalletKey == <<2, 1>>
OurAddress == public_key_to_cosmos_address(WalletKey)
OtherAddress == public_key_to_cosmos_address(<<3, 9>>)

SendValue(from, to) ==
    [NoValue EXCEPT !.from_address = from, !.to_address = to,
                    !.amount = [kind |-> "array",
                                coins |-> <<Coin(Some(STR_uatom), Some(<<49>>))>>]]

DelegateValue(delegator) ==
    [NoValue EXCEPT !.delegator_address = delegator,
                    !.validator_address = Some(<<118>>),
                    !.amount = [kind |-> "object",
                                coins |-> <<Coin(Some(STR_uatom), Some(<<50>>))>>]]

MsgJson(type, value) == [type |-> type, value |-> value]

MessageLists ==
    { <<>>,
      <<MsgJson(Some(STR_MsgSend), SendValue(Some(OurAddress), Some(<<98>>)))>>,
      <<MsgJson(Some(STR_MsgSend), SendValue(Some(OtherAddress), Some(<<98>>)))>>,
      <<MsgJson(Some(STR_MsgSend), SendValue(Some(OurAddress), None))>>,
      <<MsgJson(Some(STR_MsgSend), SendValue(Some(OurAddress), Some(<<98>>))),
        MsgJson(Some(STR_MsgDelegate), DelegateValue(Some(OurAddress)))>>,
      <<MsgJson(Some(STR_MsgVote), SendValue(Some(OurAddress), Some(<<98>>)))>>,
      <<MsgJson(None, SendValue(Some(OurAddress), Some(<<98>>)))>>,
      <<MsgJson(Some(STR_MsgSend), SendValue(None, Some(<<98>>)))>>,
      <<MsgJson(Some(STR_MsgSend), SendValue(Some(OurAddress), Some(<<98>>))),
        MsgJson(Some(STR_MsgDelegate), DelegateValue(Some(OtherAddress)))>>,
      <<MsgJson(Some(STR_MsgSend), SendValue(Some(OurAddress), Some(<<98>>))),
        MsgJson(Some(STR_MsgDelegate), DelegateValue(None))>> }

RawTransactions ==
    [ json_ok : {TRUE},
      messages : {[present |-> FALSE, list |-> <<>>]} \cup
                 {[present |-> TRUE, list |-> l] : l \in MessageLists},
      fee : { [present |-> FALSE, coins |-> <<>>],
              [present |-> TRUE, coins |-> <<>>],
              [present |-> TRUE, coins |-> <<Coin(Some(STR_uatom), Some(<<53>>))>>],
              [present |-> TRUE, coins |-> <<Coin(None, Some(<<53>>))>>] },
      gas_limit : {[valid |-> FALSE, n |-> 0], [valid |-> TRUE, n |-> 300000]},
      memo : {<<>>, <<109>>} ]
    \cup
    { [ json_ok |-> FALSE, messages |-> [present |-> FALSE, list |-> <<>>],
        fee |-> [present |-> FALSE, coins |-> <<>>],
        gas_limit |-> [valid |-> FALSE, n |-> 0], memo |-> <<>> ] }

\* replies of cos_getAbciQuery: the value is the base64 text of a
\* QueryAccountResponse, kept together with the fields it was built from
AccountValue(top, fields, b64) ==
    LET in == [top |-> top, any |-> "full", fields |-> fields, base64_ok |-> b64]
    IN [empty |-> FALSE] @@ ResponseValue(in) @@ in

EmptyValue ==
    [empty |-> TRUE, base64_ok |-> TRUE, bytes |-> <<>>, top |-> "none",
     any |-> "full", fields |-> <<>>]

QueryValues ==
    { EmptyValue,
      AccountValue("account", <<>>, FALSE),
      AccountValue("other", <<>>, TRUE),
      AccountValue("account", <<Field(3, 0, 5, <<>>), Field(4, 0, 9, <<>>)>>, TRUE),
      AccountValue("account", <<Field(3, 0, 300, <<>>)>>, TRUE),
      AccountValue("account", <<Field(3, 0, 0, <<>>), Field(4, 0, 9, <<>>)>>, TRUE),
      AccountValue("account", <<Field(4, 0, 9, <<>>)>>, TRUE),
      AccountValue("account", <<Field(5, 5, 0, <<24, 7, 0, 0>>)>>, TRUE) }

NoQuery == [kind |-> "none", code |-> 0, value |-> EmptyValue]

QueryReplies ==
    { [kind |-> "reject", code |-> 0, value |-> EmptyValue],
      [kind |-> "rpc_err", code |-> 0, value |-> EmptyValue] } \cup
    [kind : {"ok"}, code : {0, 5}, value : QueryValues]

\* replies of sign_with_ecdsa: a failed call, or a signature of some length
SignatureOf(n) == [i \in 1..n |-> (i * 3) % 256]
SignerReplies ==
    {[ok |-> FALSE, signature |-> <<>>]} \cup
    {[ok |-> TRUE, signature |-> SignatureOf(n)] : n \in {0, 63, 64, 65, 70}}
NoSigner == [ok |-> FALSE, signature |-> <<>>]

BroadcastReplies == {"reject", "rpc_err", "ok"}

NoTransaction ==
    [messages |-> <<>>, fee |-> <<>>, gas_limit |-> 0, memo |-> <<>>,
     chain_id |-> <<>>, account_number |-> 0, sequence |-> 0]

NoCalls == [pk |-> 0, query |-> 0, sign |-> 0, broadcast |-> 0]

IdleWallet ==
    /\ wPc = "off"
    /\ wRaw = CHOOSE r \in RawTransactions : ~r.json_ok
    /\ wPk = <<>>
    /\ wQuery = NoQuery
    /\ wTransaction = NoTransaction
    /\ wSignBytes = <<>>
    /\ wSigner = NoSigner
    /\ wBroadcast = <<>>
    /\ wCalls = NoCalls
    /\ wResult = WNone

InitWallet ==
    /\ wPc = "start"
    /\ wRaw \in RawTransactions
    /\ wPk = <<>>
    /\ wQuery = NoQuery
    /\ wTransaction = NoTransaction
    /\ wSignBytes = <<>>
    /\ wSigner = NoSigner
    /\ wBroadcast = <<>>
    /\ wCalls = NoCalls
    /\ wResult = WNone

(* lines 99-139: entry, JSON checks, call of ecdsa_public_key *)
WalletStart ==
    /\ wPc = "start"
    /\ LET e == parse_messages(wRaw) IN
       IF e.tag = "Err"
       THEN /\ wPc' = "done"
            /\ wResult' = e
            /\ UNCHANGED wCalls
       ELSE /\ wPc' = "await_pk"
            /\ wCalls' = [wCalls EXCEPT !.pk = @ + 1]
            /\ UNCHANGED wResult
    /\ UNCHANGED <<wRaw, wPk, wQuery, wTransaction, wSignBytes, wSigner, wBroadcast>>

(* ecdsa_public_key failed: `expect` panics *)
WalletKeyFailed ==
    /\ wPc = "await_pk"
    /\ wPc' = "trapped"
    /\ UNCHANGED <<wRaw, wPk, wQuery, wTransaction, wSignBytes, wSigner,
                   wBroadcast, wCalls, wResult>>

(* lines 139-175: address, signer check, call of cos_getAbciQuery *)
\* the same stretch as it would be if only the first message's signer were checked
WalletKeyReturnedFirstOnly ==
    /\ wPc = "await_pk"
    /\ wPk' = WalletKey
    /\ LET e == verify_signers(<<Head(cosmos_messages(wRaw))>>,
                               public_key_to_cosmos_address(WalletKey)) IN
       IF e.tag = "Err"
       THEN /\ wPc' = "done"
            /\ wResult' = e
            /\ UNCHANGED wCalls
       ELSE /\ wPc' = "await_query"
            /\ wCalls' = [wCalls EXCEPT !.query = @ + 1]
            /\ UNCHANGED wResult
    /\ UNCHANGED <<wRaw, wQuery, wTransaction, wSignBytes, wSigner, wBroadcast>>

WalletKeyReturned ==
    /\ wPc = "await_pk"
    /\ wPk' = WalletKey
    /\ LET e == verify_signers(cosmos_messages(wRaw),
                               public_key_to_cosmos_address(WalletKey)) IN
       IF e.tag = "Err"
       THEN /\ wPc' = "done"
            /\ wResult' = e
            /\ UNCHANGED wCalls
       ELSE /\ wPc' = "await_query"
            /\ wCalls' = [wCalls EXCEPT !.query = @ + 1]
            /\ UNCHANGED wResult
    /\ UNCHANGED <<wRaw, wQuery, wTransaction, wSignBytes, wSigner, wBroadcast>>

(* lines 176-247: account info, fee, transaction, sign doc, call of         *)
(* sign_with_ecdsa                                                          *)
WalletTransaction(raw, fee, chain_id, account) ==
    [ messages |-> cosmos_messages(raw),
      fee |-> fee,
      gas_limit |-> IF raw.gas_limit.valid THEN raw.gas_limit.n ELSE DefaultGasLimit,
      memo |-> raw.memo,
      chain_id |-> chain_id,
      account_number |-> account.account_number,
      sequence |-> account.sequence ]

WalletQueryReturned(q, chain_id) ==
    /\ wPc = "await_query"
    /\ wQuery' = q
    /\ \E a \in {account_info(q)}, f \in {fee_coins(wRaw)} :
       \E transaction \in {WalletTransaction(wRaw, f.bytes, chain_id, a)} :
       \E sign_bytes \in {create_sign_doc_bytes(transaction, wPk)} :
          IF ~a.ok \/ ~f.ok \/ ~sign_bytes.ok
          THEN /\ wPc' = "done"
               /\ wResult' = WErr(IF ~a.ok THEN a.err
                                  ELSE IF ~f.ok THEN f.err ELSE sign_bytes.err)
               /\ UNCHANGED <<wTransaction, wSignBytes, wCalls>>
          ELSE /\ wPc' = "await_sign"
               /\ wTransaction' = transaction
               /\ wSignBytes' = sign_bytes.bytes
               /\ wCalls' = [wCalls EXCEPT !.sign = @ + 1]
               /\ UNCHANGED wResult
    /\ UNCHANGED <<wRaw, wPk, wSigner, wBroadcast>>

(* lines 247-270: signature gate, final Tx, call of cos_getBroadcastTxSync; *)
(* a failed sign_with_ecdsa panics in `expect`                              *)
WalletSignReturned(r) ==
    /\ wPc = "await_sign"
    /\ IF ~r.ok
       THEN /\ wPc' = "trapped"
            /\ UNCHANGED <<wSigner, wBroadcast, wCalls, wResult>>
       ELSE \E sig \in {signature_gate(r.signature)} :
            \E tx \in {build_transaction_for_broadcast(wTransaction, wPk, sig.bytes)} :
               /\ wSigner' = r
               /\ IF ~sig.ok \/ ~tx.ok
                  THEN /\ wPc' = "done"
                       /\ wResult' = WErr(IF ~sig.ok THEN sig.err ELSE tx.err)
                       /\ UNCHANGED <<wBroadcast, wCalls>>
                  ELSE /\ wPc' = "await_broadcast"
                       /\ wBroadcast' = tx.bytes
                       /\ wCalls' = [wCalls EXCEPT !.broadcast = @ + 1]
                       /\ UNCHANGED wResult
    /\ UNCHANGED <<wRaw, wPk, wQuery, wTransaction, wSignBytes>>

(* lines 270-273 *)
WalletBroadcastReturned(b) ==
    /\ wPc = "await_broadcast"
    /\ wPc' = "done"
    /\ wResult' = IF b = "ok" THEN WOk("hash")
                  ELSE IF b = "reject" THEN WErr("Failed to broadcast transaction")
                  ELSE WErr("rpc error")
    /\ UNCHANGED <<wRaw, wPk, wQuery, wTransaction, wSignBytes, wSigner,
                   wBroadcast, wCalls>>

----------------------------------------------------------------------------
(* The protobuf decoder of cosmos-utils (prost): Tx::decode and the typed   *)
(* message decoders used by print_transaction_json.  A message is read into *)
(* its list of fields; a singular field takes its last occurrence, a        *)
(* repeated field every occurrence in order, an absent field its default.   *)

ProstFailed == [ok |-> FALSE, fields |-> <<>>]

FixedWidth(data, pos, n) ==
    IF pos + n > Len(data) THEN DecodeErr("buffer underflow", pos)
    ELSE [ok |-> TRUE, err |-> "", value |-> 0,
          bytes |-> SubSeq(data, pos + 1, pos + n), pos |-> pos + n]

ProstFieldBody(data, pos, wire) ==
    IF wire = 0 THEN read_varint(data, pos)
    ELSE IF wire = 2 THEN read_bytes(data, pos)
    ELSE IF wire = 5 THEN FixedWidth(data, pos, 4)
    ELSE IF wire = 1 THEN FixedWidth(data, pos, 8)
    ELSE DecodeErr("invalid wire type", pos)

RECURSIVE ProstFields(_, _)
ProstFields(data, pos) ==
    IF pos >= Len(data) THEN [ok |-> TRUE, fields |-> <<>>]
    ELSE LET key == read_varint(data, pos)
             num == key.value \div 8
             wire == key.value % 8
             body == ProstFieldBody(data, key.pos, wire)
             rest == ProstFields(data, body.pos)
         IN IF ~key.ok \/ num = 0 THEN ProstFailed
            ELSE IF ~body.ok THEN ProstFailed
            ELSE IF ~rest.ok THEN ProstFailed
            ELSE [ok |-> TRUE,
                  fields |-> <<[num |-> num, wire |-> wire, value |-> body.value,
                                payload |-> body.bytes]>> \o rest.fields]

\* schema: field number -> wire type of the fields the message declares; a
\* declared field met with another wire type is a decode error, an
\* undeclared field is skipped
ProstDecodeMessage(data, schema) ==
    LET fs == ProstFields(data, 0) IN
    IF fs.ok /\ \A i \in 1..Len(fs.fields) :
                    fs.fields[i].num \in DOMAIN schema =>
                        fs.fields[i].wire = schema[fs.fields[i].num]
    THEN fs ELSE ProstFailed

RECURSIVE LastField(_, _, _)
LastField(fields, n, default) ==
    IF fields = <<>> THEN default
    ELSE IF fields[Len(fields)].num = n THEN fields[Len(fields)]
    ELSE LastField(SubSeq(fields, 1, Len(fields) - 1), n, default)

DefaultField == [num |-> 0, wire |-> 0, value |-> 0, payload |-> <<>>]
ProstGetBytes(fields, n) == LastField(fields, n, DefaultField).payload
ProstGetUint64(fields, n) == LastField(fields, n, DefaultField).value
ProstHas(fields, n) == \E i \in 1..Len(fields) : fields[i].num = n

RECURSIVE ProstGetRepeated(_, _)
ProstGetRepeated(fields, n) ==
    IF fields = <<>> THEN <<>>
    ELSE IF Head(fields).num = n
    THEN <<Head(fields).payload>> \o ProstGetRepeated(Tail(fields), n)
    ELSE ProstGetRepeated(Tail(fields), n)

Bytes2(nums) == [n \in nums |-> 2]

\* Coin { denom = 1, amount = 2 }
DecodeCoin(bytes) ==
    LET m == ProstDecodeMessage(bytes, Bytes2({1, 2})) IN
    [ok |-> m.ok,
     coin |-> Coin(Some(ProstGetBytes(m.fields, 1)), Some(ProstGetBytes(m.fields, 2)))]

DecodeCoins(list) ==
    LET cs == [i \in 1..Len(list) |-> DecodeCoin(list[i])] IN
    [ok |-> \A i \in 1..Len(cs) : cs[i].ok,
     coins |-> [i \in 1..Len(cs) |-> cs[i].coin]]

\* an Option<Coin> field: absent, or one coin
DecodeOptionalCoin(fields, n) ==
    IF ~ProstHas(fields, n) THEN [ok |-> TRUE, amount |-> NoValue.amount]
    ELSE LET c == DecodeCoin(ProstGetBytes(fields, n)) IN
         [ok |-> c.ok, amount |-> [kind |-> "object", coins |-> <<c.coin>>]]

\* MsgSend { from_address = 1, to_address = 2, repeated amount = 3 }
DecodeMsgSend(bytes) ==
    LET m == ProstDecodeMessage(bytes, Bytes2({1, 2, 3}))
        cs == DecodeCoins(ProstGetRepeated(m.fields, 3))
    IN [ok |-> m.ok /\ cs.ok,
        value |-> [NoValue EXCEPT
                     !.from_address = Some(ProstGetBytes(m.fields, 1)),
                     !.to_address = Some(ProstGetBytes(m.fields, 2)),
                     !.amount = [kind |-> "array", coins |-> cs.coins]]]

\* MsgDelegate, MsgUndelegate
\*   { delegator_address = 1, validator_address = 2, amount = 3 }
DecodeMsgDelegate(bytes) ==
    LET m == ProstDecodeMessage(bytes, Bytes2({1, 2, 3}))
        c == DecodeOptionalCoin(m.fields, 3)
    IN [ok |-> m.ok /\ c.ok,
        value |-> [NoValue EXCEPT
                     !.delegator_address = Some(ProstGetBytes(m.fields, 1)),
                     !.validator_address = Some(ProstGetBytes(m.fields, 2)),
                     !.amount = c.amount]]

\* MsgBeginRedelegate { delegator_address = 1, validator_src_address = 2,
\*                      validator_dst_address = 3, amount = 4 }
DecodeMsgBeginRedelegate(bytes) ==
    LET m == ProstDecodeMessage(bytes, Bytes2({1, 2, 3, 4}))
        c == DecodeOptionalCoin(m.fields, 4)
    IN [ok |-> m.ok /\ c.ok,
        value |-> [NoValue EXCEPT
                     !.delegator_address = Some(ProstGetBytes(m.fields, 1)),
                     !.validator_src_address = Some(ProstGetBytes(m.fields, 2)),
                     !.validator_dst_address = Some(ProstGetBytes(m.fields, 3)),
                     !.amount = c.amount]]

\* MsgWithdrawDelegatorReward { delegator_address = 1, validator_address = 2 }
DecodeMsgWithdrawDelegatorReward(bytes) ==
    LET m == ProstDecodeMessage(bytes, Bytes2({1, 2})) IN
    [ok |-> m.ok,
     value |-> [NoValue EXCEPT
                  !.delegator_address = Some(ProstGetBytes(m.fields, 1)),
                  !.validator_address = Some(ProstGetBytes(m.fields, 2))]]

\* Any { type_url = 1, value = 2 } holding one of the messages
DecodeMessage(bytes) ==
    LET any == ProstDecodeMessage(bytes, Bytes2({1, 2}))
        type_url == ProstGetBytes(any.fields, 1)
        value == ProstGetBytes(any.fields, 2)
        msg == IF type_url = STR_MsgSend THEN DecodeMsgSend(value)
               ELSE IF type_url \in {STR_MsgDelegate, STR_MsgUndelegate}
               THEN DecodeMsgDelegate(value)
               ELSE IF type_url = STR_MsgBeginRedelegate
               THEN DecodeMsgBeginRedelegate(value)
               ELSE IF type_url = STR_MsgWithdrawDelegatorReward
               THEN DecodeMsgWithdrawDelegatorReward(value)
               ELSE [ok |-> FALSE, value |-> NoValue]
    IN [ok |-> any.ok /\ msg.ok,
        message |-> [type_url |-> type_url, value |-> msg.value]]

\* SignerInfo { public_key = 1 (Any of PubKey { key = 1 }),
\*              mode_info = 2 (ModeInfo { single = 1 { mode = 1 } }), sequence = 3 }
DecodeSignerInfo(bytes) ==
    LET m == ProstDecodeMessage(bytes, (1 :> 2) @@ (2 :> 2) @@ (3 :> 0))
        any == ProstDecodeMessage(ProstGetBytes(m.fields, 1), Bytes2({1, 2}))
        pk == ProstDecodeMessage(ProstGetBytes(any.fields, 2), Bytes2({1}))
        mode_info == ProstDecodeMessage(ProstGetBytes(m.fields, 2), Bytes2({1, 2}))
        single == ProstDecodeMessage(ProstGetBytes(mode_info.fields, 1), 1 :> 0)
    IN [ok |-> m.ok /\ any.ok /\ pk.ok /\ mode_info.ok /\ single.ok,
        signer |-> [ public_key_type |-> ProstGetBytes(any.fields, 1),
                     public_key |-> ProstGetBytes(pk.fields, 1),
                     mode |-> ProstGetUint64(single.fields, 1),
                     sequence |-> ProstGetUint64(m.fields, 3) ]]

\* Fee { repeated amount = 1, gas_limit = 2, payer = 3, granter = 4 }
DecodeFee(bytes) ==
    LET m == ProstDecodeMessage(bytes, (1 :> 2) @@ (2 :> 0) @@ (3 :> 2) @@ (4 :> 2))
        cs == DecodeCoins(ProstGetRepeated(m.fields, 1))
    IN [ok |-> m.ok /\ cs.ok,
        amount |-> [i \in 1..Len(cs.coins) |->
                       Coin(cs.coins[i].denom.s, cs.coins[i].amount.s)],
        gas_limit |-> ProstGetUint64(m.fields, 2),
        payer |-> ProstGetBytes(m.fields, 3),
        granter |-> ProstGetBytes(m.fields, 4)]

\* Tx { body = 1 (TxBody { repeated messages = 1, memo = 2, timeout_height = 3 }),
\*      auth_info = 2 (AuthInfo { repeated signer_infos = 1, fee = 2 }),
\*      repeated signatures = 3 }
DecodeTx(tx_bytes) ==
    LET tx == ProstDecodeMessage(tx_bytes, Bytes2({1, 2, 3}))
        body == ProstDecodeMessage(ProstGetBytes(tx.fields, 1),
                                   (1 :> 2) @@ (2 :> 2) @@ (3 :> 0))
        auth == ProstDecodeMessage(ProstGetBytes(tx.fields, 2), Bytes2({1, 2, 3}))
        anys == ProstGetRepeated(body.fields, 1)
        msgs == [i \in 1..Len(anys) |-> DecodeMessage(anys[i])]
        infos == ProstGetRepeated(auth.fields, 1)
        signers == [i \in 1..Len(infos) |-> DecodeSignerInfo(infos[i])]
        fee == DecodeFee(ProstGetBytes(auth.fields, 2))
    IN [ ok |-> /\ tx.ok /\ body.ok /\ auth.ok /\ fee.ok
                /\ \A i \in 1..Len(msgs) : msgs[i].ok
                /\ \A i \in 1..Len(signers) : signers[i].ok,
         messages |-> [i \in 1..Len(msgs) |-> msgs[i].message],
         memo |-> ProstGetBytes(body.fields, 2),
         timeout_height |-> ProstGetUint64(body.fields, 3),
         signer_infos |-> [i \in 1..Len(signers) |-> signers[i].signer],
         fee |-> [amount |-> fee.amount, gas_limit |-> fee.gas_limit,
                  payer |-> fee.payer, granter |-> fee.granter],
         signatures |-> ProstGetRepeated(tx.fields, 3) ]

----------------------------------------------------------------------------
(* Transactions given to the two encoders *)

RedelegateValue(delegator) ==
    [NoValue EXCEPT !.delegator_address = delegator,
                    !.validator_src_address = Some(<<118>>),
                    !.validator_dst_address = Some(<<119, 50>>),
                    !.amount = [kind |-> "object",
                                coins |-> <<Coin(Some(STR_uatom), Some(<<51>>))>>]]

WithdrawValue(delegator) ==
    [NoValue EXCEPT !.delegator_address = delegator,
                    !.validator_address = Some(<<118>>)]

Message(type_url, value) == [type_url |-> type_url, value |-> value]

EncMessages ==
    { Message(STR_MsgSend, SendValue(Some(<<97>>), Some(<<98>>))),
      \* a zero-amount coin
      Message(STR_MsgSend,
              [SendValue(Some(<<97>>), Some(<<98>>)) EXCEPT
                  !.amount.coins = <<Coin(Some(STR_uatom), Some(<<48>>))>>]),
      \* an empty amount array
      Message(STR_MsgSend,
              [SendValue(Some(<<97>>), Some(<<98>>)) EXCEPT !.amount.coins = <<>>]),
      \* to_address missing
      Message(STR_MsgSend, SendValue(Some(<<97>>), None)),
      Message(STR_MsgDelegate, DelegateValue(Some(<<97>>))),
      Message(STR_MsgUndelegate, DelegateValue(Some(<<97>>))),
      Message(STR_MsgBeginRedelegate, RedelegateValue(Some(<<97>>))),
      Message(STR_MsgWithdrawDelegatorReward, WithdrawValue(Some(<<97>>))),
      \* not one of the five supported types
      Message(STR_MsgVote, SendValue(Some(<<97>>), Some(<<98>>))),
      Message(<<>>, SendValue(Some(<<97>>), Some(<<98>>))) }

EncInputs ==
    [ transaction :
        [ messages : UNION { [1..n -> EncMessages] : n \in 0..MaxMessages },
          fee : {<<>>, <<Coin(STR_uatom, <<53>>)>>},
          gas_limit : {DefaultGasLimit},
          memo : {<<>>, <<109>>},
          chain_id : {STR_provider},
          account_number : {5},
          sequence : {0, 300} ],
      public_key : {WalletKey},
      signature : {SignatureOf(SignatureLength)} ]

IdleEnc ==
    /\ encInput = [transaction |-> NoTransaction, public_key |-> <<>>,
                   signature |-> <<>>]
    /\ encPc = "idle"
    /\ encSignDoc = EncErr("")
    /\ encTx = EncErr("")

InitEnc ==
    /\ encInput \in EncInputs
    /\ encPc = "ready"
    /\ encSignDoc = EncErr("")
    /\ encTx = EncErr("")

EncodeTransaction ==
    /\ encPc = "ready"
    /\ encSignDoc' = create_sign_doc_bytes(encInput.transaction, encInput.public_key)
    /\ encTx' = build_transaction_for_broadcast(encInput.transaction,
                                                encInput.public_key, encInput.signature)
    /\ encPc' = "done"
    /\ UNCHANGED encInput

----------------------------------------------------------------------------
(* The account query data.  Hex text is the sequence of its digits 0..15.   *)

\* hex::encode
HexEncode(bytes) ==
    [k \in 1..(2 * Len(bytes)) |->
        IF k % 2 = 1 THEN bytes[(k + 1) \div 2] \div 16 ELSE bytes[k \div 2] % 16]

\* format!("{:x}", n)
RECURSIVE FormatHex(_)
FormatHex(n) == IF n < 16 THEN <<n>> ELSE FormatHex(n \div 16) \o <<n % 16>>

\* format!("{:02x}", n): at least two digits, zero padded
FormatHex02(n) == IF n < 16 THEN <<0, n>> ELSE FormatHex(n)

\* format!("0a{:02x}{}", address.len(), hex::encode(address.as_bytes()))
query_data(address) == <<0, 10>> \o FormatHex02(Len(address)) \o HexEncode(address)

Addresses ==
    { [i \in 1..n |-> 97 + ((i * k) % 26)] : n \in 0..MaxAddressLen, k \in {1, 7} }

IdleQd ==
    /\ qdAddress = <<>>
    /\ qdPc = "idle"
    /\ qdData = <<>>

InitQd ==
    /\ qdAddress \in Addresses
    /\ qdPc = "ready"
    /\ qdData = <<>>

BuildQueryData ==
    /\ qdPc = "ready"
    /\ qdData' = query_data(qdAddress)
    /\ qdPc' = "done"
    /\ UNCHANGED qdAddress

----------------------------------------------------------------------------
(* estimate_gas_for_transaction (cosmos-utils/src/lib.rs).  The function is *)
(* blocking: it runs from its entry to the send of the Simulate request,    *)
(* and from the reply to its return.                                        *)

GasOk(gas) == [ok |-> TRUE, value |-> gas, err |-> ""]
GasErr(msg) == [ok |-> FALSE, value |-> 0, err |-> msg]
NoGas == [ok |-> FALSE, value |-> 0, err |-> "pending"]

\* read_varint_at: the same loop as read_varint, on a caller-owned cursor
read_varint_at(data, pos) == read_varint_loop(data, pos, 0, 0)

\* messages_array[0]["@type"].as_str().unwrap_or("")
first_message_type(transaction_json) ==
    LET m == transaction_json.messages[1]
    IN IF m.has_type THEN m.type_url ELSE <<>>

\* the static estimate, lines 655-659 and 713-717
fallback_gas(message_type) ==
    IF message_type = STR_MsgSend THEN 125000
    ELSE IF message_type = STR_MsgDelegate THEN 350000
    ELSE 250000

\* (gas_used as f64 * buffer_multiplier) as u64 with the multipliers 1.25,
\* 1.15 and 1.2.  The f64 product of 1.25 and of 1.2 truncates to the exact
\* quotient for every gas_used of the band; that of 1.15 does so unless
\* gas_used is a multiple of 20, and the replies of this model carry no such
\* gas_used inside the band.
with_buffer(gas_used, message_type) ==
    IF message_type = STR_MsgSend THEN (gas_used * 125) \div 100
    ELSE IF message_type = STR_MsgDelegate THEN (gas_used * 115) \div 100
    ELSE (gas_used * 120) \div 100

\* the accepted band of line 690
gas_in_band(gas_used) == gas_used > 50000 /\ gas_used < 2000000

\* the scan of lines 685-708 from index i: every byte 0x10 below the limit
\* is taken for the tag of gas_used and the varint after it is read
RECURSIVE scan_gas_used(_, _, _, _)
scan_gas_used(decoded, i, limit, message_type) ==
    IF i >= limit THEN NoGas
    ELSE IF decoded[i + 1] = 16
    THEN LET r == read_varint_at(decoded, i + 1)
         IN IF r.ok /\ gas_in_band(r.value)
            THEN GasOk(with_buffer(r.value, message_type))
            ELSE scan_gas_used(decoded, i + 1, limit, message_type)
    ELSE scan_gas_used(decoded, i + 1, limit, message_type)

\* lines 475-640: the calls to the canister and the checks of the messages
\* made before the request is sent; "" when the request goes out
estimate_gas_before_request(transaction_json, canister) ==
    IF canister = "no_public_key" THEN "Failed to get public key"
    ELSE IF canister = "no_account" THEN "Failed to get account info"
    ELSE IF ~transaction_json.has_messages THEN "Missing messages array"
    ELSE IF transaction_json.messages = <<>> THEN "No messages to simulate"
    ELSE IF \E k \in DOMAIN transaction_json.messages :
               /\ \A j \in 1..(k - 1) :
                     /\ transaction_json.messages[j].has_type
                     /\ transaction_json.messages[j].type_url \in {STR_MsgSend, STR_MsgDelegate}
               /\ ~transaction_json.messages[k].has_type
    THEN "Missing @type"
    ELSE IF \E k \in DOMAIN transaction_json.messages :
               transaction_json.messages[k].type_url \notin {STR_MsgSend, STR_MsgDelegate}
    THEN "Unsupported message type for simulation"
    ELSE IF canister = "no_signature" THEN "Failed to get signature"
    ELSE IF canister = "short_signature" THEN "Signature too short"
    ELSE ""

\* lines 636-721: from the reply of the node to the return
estimate_gas_after_reply(transaction_json, reply) ==
    LET message_type == first_message_type(transaction_json)
        decoded == reply.value.bytes
        limit == IF 50 < Len(decoded) - 8 THEN 50 ELSE Len(decoded) - 8
        found == IF Len(decoded) >= 16
                 THEN scan_gas_used(decoded, 0, limit, message_type)
                 ELSE NoGas
    IN IF reply.transport = "failed" THEN GasErr("error sending request")
       ELSE IF reply.transport = "not_json" THEN GasErr("error decoding response body")
       ELSE IF reply.has_error THEN GasErr("Simulation RPC error")
       ELSE IF reply.code # 0 THEN GasOk(fallback_gas(message_type))
       ELSE IF reply.value.kind = "missing" THEN GasErr("Missing simulation response value")
       ELSE IF reply.value.kind = "not_base64" THEN GasErr("Invalid base64")
       ELSE IF found.ok THEN found
       ELSE GasOk(fallback_gas(message_type))

\* A SimulateResponse {gas_info: {gas_wanted, gas_used}, result}; the result
\* is `filler` bytes 'a', preceded, when embedded > 0, by "aa", a byte 0x10
\* and the varint of `embedded`, as event data may hold
SimulateResponse(gas_wanted, gas_used, filler, embedded) ==
    LET gas_info == encode_uint64(8, gas_wanted) \o encode_uint64(16, gas_used)
        tx_result == (IF embedded > 0 THEN <<97, 97>> \o encode_uint64(16, embedded) ELSE <<>>)
                         \o [i \in 1..filler |-> 97]
    IN encode_length_delimited(10, gas_info)
           \o (IF tx_result = <<>> THEN <<>> ELSE encode_length_delimited(18, tx_result))

GasUsedValues == {0, 50000, 50001, 97003, 1999999, 2000000}

SimulateReply(transport, has_error, code, kind, gas_used, filler, embedded) ==
    [transport |-> transport, has_error |-> has_error, code |-> code,
     value |-> [kind |-> kind,
                bytes |-> IF kind = "bytes"
                          THEN SimulateResponse(1000000, gas_used, filler, embedded)
                          ELSE <<>>],
     gas_used |-> gas_used, embedded |-> embedded]

\* The replies of the node: a transport failure, a body that is not JSON, a
\* JSON-RPC error object, an ABCI code (-1 stands for an absent code), a
\* value that is absent or not base64, and SimulateResponses
SimulateReplies ==
    { SimulateReply(t, FALSE, 0, "missing", 0, 0, 0) : t \in {"failed", "not_json"} }
    \cup { SimulateReply("ok", TRUE, c, "missing", 0, 0, 0) : c \in {-1, 0} }
    \cup { SimulateReply("ok", FALSE, c, k, 97003, 20, 0) :
              c \in {-1, 0, 11}, k \in {"missing", "not_base64", "bytes"} }
    \cup { SimulateReply("ok", FALSE, 0, "bytes", g, f, 0) :
              g \in GasUsedValues, f \in {0, 20} }
    \cup { SimulateReply("ok", FALSE, 0, "bytes", g, 20, 97003) : g \in {0, 2000000} }

GasMessage(has_type, type_url) == [has_type |-> has_type, type_url |-> type_url]

GasMessages ==
    { GasMessage(TRUE, t) : t \in {STR_MsgSend, STR_MsgDelegate, STR_MsgUndelegate} }
    \cup { GasMessage(FALSE, <<>>) }

GasTransactions ==
    { [has_messages |-> FALSE, messages |-> <<>>] }
    \cup { [has_messages |-> TRUE, messages |-> ms] :
              ms \in UNION { [1..n -> GasMessages] : n \in 0..MaxMessages } }

CanisterReplies == {"ok", "no_public_key", "no_account", "no_signature", "short_signature"}

NoReply == SimulateReply("none", FALSE, 0, "missing", 0, 0, 0)

IdleGas ==
    /\ gasTx = [has_messages |-> FALSE, messages |-> <<>>]
    /\ gasPc = "idle"
    /\ gasReply = NoReply
    /\ gasResult = NoGas

InitGas ==
    /\ gasTx \in GasTransactions
    /\ gasPc = "ready"
    /\ gasReply = NoReply
    /\ gasResult = NoGas

\* lines 475-640
EstimateGasStart(canister) ==
    /\ gasPc = "ready"
    /\ \E e \in {estimate_gas_before_request(gasTx, canister)} :
          IF e = ""
          THEN gasPc' = "simulating" /\ gasResult' = gasResult
          ELSE gasPc' = "done" /\ gasResult' = GasErr(e)
    /\ UNCHANGED <<gasTx, gasReply>>

\* lines 636-721
EstimateGasReplied(reply) ==
    /\ gasPc = "simulating"
    /\ gasReply' = reply
    /\ gasResult' = estimate_gas_after_reply(gasTx, reply)
    /\ gasPc' = "done"
    /\ UNCHANGED gasTx

----------------------------------------------------------------------------
(* Several sendCosmosTransaction calls of one caller.  The canister runs    *)
(* one message at a time, and a call gives way to the others at each of     *)
(* its awaits: ecdsa_public_key, cos_getAbciQuery, sign_with_ecdsa and      *)
(* cos_getBroadcastTxSync.  The handler keeps nothing between its calls;    *)
(* account_number and sequence are those of the query reply.                *)

Invocations == 1..NumInvocations

\* a well-formed transaction of the wallet's own address
OwnSend(memo) ==
    [ json_ok |-> TRUE,
      messages |-> [present |-> TRUE,
                    list |-> <<MsgJson(Some(STR_MsgSend),
                                       SendValue(Some(OurAddress), Some(<<98>>)))>>],
      fee |-> [present |-> TRUE, coins |-> <<Coin(Some(STR_uatom), Some(<<53>>))>>],
      gas_limit |-> [valid |-> TRUE, n |-> 300000],
      memo |-> memo ]

NoInvocation == [pc |-> "off", raw |-> OwnSend(<<>>), transaction |-> NoTransaction]

\* the node's answer to the account query: the account as the chain has it
ChainAccountReply(sequence) ==
    [kind |-> "ok", code |-> 0,
     value |-> AccountValue("account",
                            <<Field(3, 0, 5, <<>>), Field(4, 0, sequence, <<>>)>>, TRUE)]

\* SignDoc { body_bytes = 1, auth_info_bytes = 2, chain_id = 3,
\* account_number = 4 }: the sequence of its first signer_info
SignDocSequence(sign_bytes) ==
    LET doc == ProstDecodeMessage(sign_bytes, (1 :> 2) @@ (2 :> 2) @@ (3 :> 2) @@ (4 :> 0))
        auth == ProstDecodeMessage(ProstGetBytes(doc.fields, 2), Bytes2({1, 2, 3}))
        infos == ProstGetRepeated(auth.fields, 1)
    IN DecodeSignerInfo(infos[1]).signer.sequence

IdleSeq ==
    /\ chainSequence = 0
    /\ invocations = [i \in Invocations |-> NoInvocation]
    /\ signDocs = <<>>

InitSeq ==
    /\ chainSequence \in 0..MaxSequence
    /\ invocations = [i \in Invocations |-> NoInvocation]
    /\ signDocs = <<>>

\* lines 93-139: the caller sends a transaction; entry, JSON checks, call of
\* ecdsa_public_key
SendStart(i, raw) ==
    /\ invocations[i].pc = "off"
    /\ invocations' =
          [invocations EXCEPT ![i] =
              [@ EXCEPT !.raw = raw,
                        !.pc = IF parse_messages(raw).tag = "Err"
                               THEN "done" ELSE "await_pk"]]
    /\ UNCHANGED <<chainSequence, signDocs>>

\* lines 139-175: address, signer check, call of cos_getAbciQuery
SendKeyReturned(i) ==
    /\ invocations[i].pc = "await_pk"
    /\ invocations' =
          [invocations EXCEPT ![i].pc =
              IF verify_signers(cosmos_messages(invocations[i].raw),
                                public_key_to_cosmos_address(WalletKey)).tag = "Err"
              THEN "done" ELSE "await_query"]
    /\ UNCHANGED <<chainSequence, signDocs>>

\* lines 176-247: account info, fee, transaction, sign doc, call of
\* sign_with_ecdsa with the sign doc
SendQueryReturned(i, q) ==
    /\ invocations[i].pc = "await_query"
    /\ \E a \in {account_info(q)}, f \in {fee_coins(invocations[i].raw)} :
       \E transaction \in {WalletTransaction(invocations[i].raw, f.bytes, STR_provider, a)} :
       \E sign_bytes \in {create_sign_doc_bytes(transaction, WalletKey)} :
          IF ~a.ok \/ ~f.ok \/ ~sign_bytes.ok
          THEN /\ invocations' = [invocations EXCEPT ![i].pc = "done"]
               /\ UNCHANGED signDocs
          ELSE /\ invocations' = [invocations EXCEPT ![i].pc = "await_sign",
                                                     ![i].transaction = transaction]
               /\ signDocs' = Append(signDocs, sign_bytes.bytes)
    /\ UNCHANGED chainSequence

\* lines 247-270: signature gate, final Tx, call of cos_getBroadcastTxSync
SendSignReturned(i, r) ==
    /\ invocations[i].pc = "await_sign"
    /\ \E sig \in {signature_gate(r.signature)} :
          invocations' =
             [invocations EXCEPT ![i].pc =
                 IF ~r.ok THEN "trapped"
                 ELSE IF ~sig.ok THEN "done"
                 ELSE "await_broadcast"]
    /\ UNCHANGED <<chainSequence, signDocs>>

\* lines 270-273: the node takes a transaction whose sequence is the
\* account's and moves the account to the next one; it refuses any other
SendBroadcastReturned(i, delivered) ==
    /\ invocations[i].pc = "await_broadcast"
    /\ invocations' = [invocations EXCEPT ![i].pc = "done"]
    /\ chainSequence' =
          IF delivered /\ invocations[i].transaction.sequence = chainSequence
          THEN chainSequence + 1
          ELSE chainSequence
    /\ UNCHANGED signDocs

----------------------------------------------------------------------------
(* The registry endpoints of the ic-cosmos-rpc canister (main.rs).  State   *)
(* holds auth (principal -> set of Auth), rpc_providers (the registered     *)
(* provider ids) and is_demo_active.  The guards and the do_* functions     *)
(* live in the auth, providers and state modules of the crate.              *)

Principals == {"controller", "alice", "bob"}
Controllers == {"controller"}
Auths == {"Manage", "RegisterProvider"}
ProviderIds == {"test_mainnet1", "mainnet"}

Replied(value) == [tag |-> "Ok", value |-> value, msg |-> ""]
Rejected(msg) == [tag |-> "Rejected", value |-> FALSE, msg |-> msg]

Outcome(st, reply) == [state |-> st, reply |-> reply]

\* ic_cdk::api::is_controller
is_controller(caller) == caller \in Controllers

\* auth::require_manage_or_controller, a guard: Err("Unauthorized") unless
\* the caller is a controller or holds Auth::Manage
require_manage_or_controller(st, caller) ==
    is_controller(caller) \/ "Manage" \in st.auth[caller]

\* auth::require_register_provider, a guard: Err("Unauthorized") unless the
\* caller is a controller or holds Auth::RegisterProvider
require_register_provider(st, caller) ==
    is_controller(caller) \/ "RegisterProvider" \in st.auth[caller]

\* auth::do_authorize, auth::do_deauthorize
do_authorize(st, principal, auth) ==
    Outcome([st EXCEPT !.auth[principal] = @ \cup {auth}], Replied(TRUE))

do_deauthorize(st, principal, auth) ==
    Outcome([st EXCEPT !.auth[principal] = @ \ {auth}], Replied(auth \in st.auth[principal]))

\* providers::do_register_provider
do_register_provider(st, caller, id) ==
    Outcome([st EXCEPT !.rpc_providers = @ \cup {id}], Replied(TRUE))

\* providers::do_unregister_provider: traps with "Unauthorized" for a caller
\* that is neither a controller nor allowed to register providers; a trap
\* discards the changes of the call
do_unregister_provider(st, caller, id) ==
    IF require_register_provider(st, caller)
    THEN Outcome([st EXCEPT !.rpc_providers = @ \ {id}], Replied(id \in st.rpc_providers))
    ELSE Outcome(st, Rejected("Unauthorized"))

\* #[query] getProviders
get_providers(st) == st.rpc_providers

\* getAuthorized that looks at the entry only, not at the Auth asked for
get_authorized_any(st, auth) == {k \in DOMAIN st.auth : st.auth[k] # {}}

\* #[query] getAuthorized
get_authorized(st, auth) == {k \in DOMAIN st.auth : auth \in st.auth[k]}

\* registerProvider as a method whose changes are not committed
register_provider_uncommitted(st, caller, id) ==
    IF require_register_provider(st, caller)
    THEN Outcome(st, do_register_provider(st, caller, id).reply)
    ELSE Outcome(st, Rejected("Unauthorized"))

\* #[update(name = "registerProvider", guard = "require_register_provider")]
register_provider(st, caller, id) ==
    IF require_register_provider(st, caller)
    THEN do_register_provider(st, caller, id)
    ELSE Outcome(st, Rejected("Unauthorized"))

\* #[update(name = "unregisterProvider")]
unregister_provider(st, caller, id) == do_unregister_provider(st, caller, id)

\* authorize without its guard
authorize_unguarded(st, caller, principal, auth) == do_authorize(st, principal, auth)

\* #[update(guard = "require_manage_or_controller")] authorize
authorize(st, caller, principal, auth) ==
    IF require_manage_or_controller(st, caller)
    THEN do_authorize(st, principal, auth)
    ELSE Outcome(st, Rejected("Unauthorized"))

\* #[update(guard = "require_manage_or_controller")] deauthorize
deauthorize(st, caller, principal, auth) ==
    IF require_manage_or_controller(st, caller)
    THEN do_deauthorize(st, principal, auth)
    ELSE Outcome(st, Rejected("Unauthorized"))

\* InitArgs { demo: Option<bool>, .. }
InitArgsValues == [demo : {"None", "Some(true)", "Some(false)"}]
InitArgsDefault == [demo |-> "None"]

EmptyStable == [auth |-> [p \in Principals |-> {}], rpc_providers |-> {}]

\* State::from(InitArgs): auth and rpc_providers are maps in stable memory,
\* opened with what the memory holds; is_demo_active is set from the args
state_from_init_args(args, stable) ==
    [auth |-> stable.auth,
     rpc_providers |-> stable.rpc_providers,
     is_demo_active |-> args.demo = "Some(true)"]

\* state::replace_state
replace_state(st) == st

\* post_upgrade that starts from empty maps
post_upgrade_from_empty(st, args) == replace_state(state_from_init_args(args, EmptyStable))

\* #[ic_cdk::post_upgrade]: replace_state(args.into()); st is the State the
\* canister had, of which the stable memory survives
post_upgrade(st, args) == replace_state(state_from_init_args(args, st))

\* #[ic_cdk::init]: post_upgrade(args) on a fresh canister
init(args) == post_upgrade(EmptyStable, args)

NoCall ==
    [method |-> "none", caller |-> "controller", principal |-> "controller",
     auth |-> "Manage", id |-> "mainnet", args |-> InitArgsDefault,
     before |-> init(InitArgsDefault), reply |-> Replied(TRUE)]

Call(method, caller, principal, auth, id, args, before, reply) ==
    [method |-> method, caller |-> caller, principal |-> principal, auth |-> auth,
     id |-> id, args |-> args, before |-> before, reply |-> reply]

IdleReg ==
    /\ rpcState = init(InitArgsDefault)
    /\ lastCall = [NoCall EXCEPT !.method = "off"]

InitReg ==
    /\ rpcState \in {init(args) : args \in InitArgsValues}
    /\ lastCall = [NoCall EXCEPT !.before = rpcState]

Authorize(caller, principal, auth) ==
    \E out \in {authorize(rpcState, caller, principal, auth)} :
       /\ rpcState' = out.state
       /\ lastCall' = Call("authorize", caller, principal, auth, NoCall.id,
                           NoCall.args, rpcState, out.reply)

Deauthorize(caller, principal, auth) ==
    \E out \in {deauthorize(rpcState, caller, principal, auth)} :
       /\ rpcState' = out.state
       /\ lastCall' = Call("deauthorize", caller, principal, auth, NoCall.id,
                           NoCall.args, rpcState, out.reply)

RegisterProvider(caller, id) ==
    \E out \in {register_provider(rpcState, caller, id)} :
       /\ rpcState' = out.state
       /\ lastCall' = Call("registerProvider", caller, NoCall.principal, NoCall.auth,
                           id, NoCall.args, rpcState, out.reply)

UnregisterProvider(caller, id) ==
    \E out \in {unregister_provider(rpcState, caller, id)} :
       /\ rpcState' = out.state
       /\ lastCall' = Call("unregisterProvider", caller, NoCall.principal, NoCall.auth,
                           id, NoCall.args, rpcState, out.reply)

\* upgrade_canister(args), which only a controller can ask for
UpgradeCanister(args) ==
    /\ rpcState' = post_upgrade(rpcState, args)
    /\ lastCall' = Call("upgrade", "controller", NoCall.principal, NoCall.auth,
                        NoCall.id, args, rpcState, Replied(TRUE))

----------------------------------------------------------------------------
(* Request ids (rpc_client.rs).  NEXT_ID is a thread_local u64 shared by    *)
(* every RpcClient of the process; next_request_id runs without an await,   *)
(* so the calls of concurrent clients interleave between invocations only.  *)
(* The counter is modelled with IdBits bits in place of 64.                 *)

IdModulus == Pow2(IdBits)

Clients == 1..NumClients

\* next_request_id as it would be if the counter were not advanced
next_request_id_stuck(counter) == [id |-> counter, next |-> counter]

next_request_id(counter) == [id |-> counter, next |-> (counter + 1) % IdModulus]

Issued(c, id) == [client |-> c, id |-> id]

\* n invocations in a row, as in the map of batch_call
RECURSIVE DrawIds(_, _, _, _)
DrawIds(c, n, counter, out) ==
    IF n = 0 THEN [next |-> counter, issued |-> out]
    ELSE LET r == next_request_id(counter)
         IN DrawIds(c, n - 1, r.next, Append(out, Issued(c, r.id)))

IdleIds ==
    /\ NEXT_ID = 0
    /\ issued = <<>>

(* thread_local NEXT_ID: RefCell::default() *)
InitIds ==
    /\ NEXT_ID = 0
    /\ issued = <<>>

(* RpcClient::call of client c builds its payload *)
IdsCall(c) ==
    /\ Len(issued) < MaxIssued
    /\ \E d \in {DrawIds(c, 1, NEXT_ID, issued)} :
          /\ NEXT_ID' = d.next
          /\ issued' = d.issued

(* RpcClient::batch_call of client c builds the payload of n requests *)
IdsBatchCall(c, n) ==
    /\ Len(issued) + n <= MaxIssued
    /\ \E d \in {DrawIds(c, n, NEXT_ID, issued)} :
          /\ NEXT_ID' = d.next
          /\ issued' = d.issued

----------------------------------------------------------------------------
(* The wire primitives at their full width.  A u64 is held as its ten       *)
(* base-128 digits, least significant first; the tenth digit has one bit.   *)
(* usize is 32 bits on the canister target and 64 bits where the tests run. *)

U64(d0, d1, d2, d3, d4, d5, d6, d7, d8, d9) ==
    [k \in 0..9 |-> <<d0, d1, d2, d3, d4, d5, d6, d7, d8, d9>>[k + 1]]

U64Zero == [k \in 0..9 |-> 0]

\* a value below 2^28 as a u64
U64FromInt(n) == [k \in 0..9 |-> IF k < 4 THEN (n \div Pow2(7 * k)) % 128 ELSE 0]

U64IsSmall(d) == \A k \in 4..9 : d[k] = 0
U64ToInt(d) == d[0] + 128 * (d[1] + 128 * (d[2] + 128 * d[3]))

\* d > n for an n below 2^28
U64Exceeds(d, n) == ~U64IsSmall(d) \/ U64ToInt(d) > n

RECURSIVE BitOr(_, _)
BitOr(a, b) ==
    IF a = 0 THEN b
    ELSE IF b = 0 THEN a
    ELSE (IF a % 2 = 1 \/ b % 2 = 1 THEN 1 ELSE 0) + 2 * BitOr(a \div 2, b \div 2)

\* value | ((x as u64) << shift) for a 7-bit x and a shift of 7k below 64:
\* the bits of x that land above bit 63 are shifted out
OrShifted(value, x, shift) ==
    [k \in 0..9 |->
        IF 7 * k = shift
        THEN BitOr(value[k], IF k = 9 THEN x % 2 ELSE x)
        ELSE value[k]]

(* read_varint (the closure of parse_account_info_from_abci) and            *)
(* read_varint_at (cosmos-utils), which are the same loop                   *)
RECURSIVE read_varint64_loop(_, _, _, _)
read_varint64_loop(data, pos, value, shift) ==
    IF pos >= Len(data)
    THEN [status |-> "err", err |-> "Unexpected end of data while reading varint",
          value |-> U64Zero, bytes |-> <<>>, pos |-> pos]
    ELSE LET byte == data[pos + 1]
             v == OrShifted(value, byte % 128, shift)
         IN IF byte < 128
            THEN [status |-> "ok", err |-> "", value |-> v, bytes |-> <<>>, pos |-> pos + 1]
            ELSE IF shift + 7 >= 64
            THEN [status |-> "err", err |-> "Varint too long",
                  value |-> U64Zero, bytes |-> <<>>, pos |-> pos + 1]
            ELSE read_varint64_loop(data, pos + 1, v, shift + 7)

read_varint64(data, pos) == read_varint64_loop(data, pos, U64Zero, 0)

(* encode_varint on a u64: val & 0x7F is the lowest digit, val >>= 7 drops it *)
RECURSIVE encode_varint64(_)
encode_varint64(val) ==
    IF \E k \in 1..9 : val[k] # 0
    THEN <<val[0] + 128>> \o encode_varint64([k \in 0..9 |-> IF k < 9 THEN val[k + 1] ELSE 0])
    ELSE <<val[0]>>

\* the build: the width of usize and whether overflow checks are compiled in
Builds == [usize_bits : {32, 64}, overflow_checks : BOOLEAN]

\* `v as usize`
AsUsize(d, bits) ==
    IF bits = 64 THEN d
    ELSE [k \in 0..9 |-> IF k < 4 THEN d[k] ELSE IF k = 4 THEN d[4] % 16 ELSE 0]

\* the number of values digit k of a usize can take
DigitRange(k, bits) ==
    IF bits = 64 THEN (IF k = 9 THEN 2 ELSE 128)
    ELSE (IF k < 4 THEN 128 ELSE IF k = 4 THEN 16 ELSE 1)

\* pos + length in usize arithmetic, for a pos below 2^28: the wrapped sum
\* and whether the addition overflowed
RECURSIVE AddUsizeFrom(_, _, _, _, _)
AddUsizeFrom(k, carry, pos, length, bits) ==
    IF k > 9 THEN [sum |-> U64Zero, overflow |-> carry > 0]
    ELSE LET s == U64FromInt(pos)[k] + length[k] + carry
             r == DigitRange(k, bits)
             rest == AddUsizeFrom(k + 1, s \div r, pos, length, bits)
         IN [sum |-> [rest.sum EXCEPT ![k] = s % r], overflow |-> rest.overflow]

AddUsize(pos, length, bits) == AddUsizeFrom(0, 0, pos, length, bits)

Panicked(msg, pos) ==
    [status |-> "panic", err |-> msg, value |-> U64Zero, bytes |-> <<>>, pos |-> pos]

(* read_bytes: the closure of parse_account_info_from_abci *)
read_bytes_usize(data, pos, build) ==
    LET l == read_varint64(data, pos) IN
    IF l.status # "ok" THEN l
    ELSE LET length == AsUsize(l.value, build.usize_bits)
             end == AddUsize(l.pos, length, build.usize_bits)
         IN IF end.overflow /\ build.overflow_checks
            THEN Panicked("attempt to add with overflow", l.pos)
            ELSE IF U64Exceeds(end.sum, Len(data))
            THEN [status |-> "err", err |-> "Length exceeds remaining data",
                  value |-> U64Zero, bytes |-> <<>>, pos |-> l.pos]
            ELSE IF U64ToInt(end.sum) < l.pos
            THEN Panicked("slice index starts after its end", l.pos)
            ELSE [status |-> "ok", err |-> "", value |-> U64Zero,
                  bytes |-> SubSeq(data, l.pos + 1, U64ToInt(end.sum)),
                  pos |-> U64ToInt(end.sum)]

\* u64 values: 0, 1, 127, 128, 300, 2^32 - 1, 2^32, 2^32 + 2, 2^63,
\* 2^64 - 2 and 2^64 - 1
U64Values ==
    { U64Zero, U64FromInt(1), U64FromInt(2), U64FromInt(3), U64FromInt(127),
      U64FromInt(128), U64FromInt(300),
      U64(127, 127, 127, 127, 15, 0, 0, 0, 0, 0),
      U64(0, 0, 0, 0, 16, 0, 0, 0, 0, 0),
      U64(2, 0, 0, 0, 16, 0, 0, 0, 0, 0),
      U64(0, 0, 0, 0, 0, 0, 0, 0, 0, 1),
      U64(126, 127, 127, 127, 127, 127, 127, 127, 127, 1),
      U64(127, 127, 127, 127, 127, 127, 127, 127, 127, 1) }

\* byte strings: n continuation bytes, all the same, then one more byte or
\* the end of the data
VarintInputs ==
    { [i \in 1..(n + Len(last)) |-> IF i <= n THEN fill ELSE last[1]] :
        n \in 0..MaxContinuation, fill \in {128, 129, 255},
        last \in {<<>>, <<0>>, <<1>>, <<2>>, <<127>>} }

Payloads == { [i \in 1..n |-> 96 + i] : n \in 0..MaxPayload }

NoWire == [status |-> "none", err |-> "", value |-> U64Zero, bytes |-> <<>>, pos |-> 0]

WireIn(op, data, value, build) == [op |-> op, data |-> data, value |-> value, build |-> build]

DefaultBuild == [usize_bits |-> 64, overflow_checks |-> FALSE]

IdleWire ==
    /\ wireInput = WireIn("off", <<>>, U64Zero, DefaultBuild)
    /\ wireResult = NoWire

InitWire ==
    /\ wireInput \in
          {WireIn("read_varint", data, U64Zero, DefaultBuild) : data \in VarintInputs}
          \cup {WireIn("round_trip", <<>>, v, DefaultBuild) : v \in U64Values}
          \cup {WireIn("read_bytes", encode_varint64(v) \o payload, v, build) :
                  v \in U64Values, payload \in Payloads, build \in Builds}
    /\ wireResult = NoWire

(* read_varint on the input bytes, cursor 0 *)
ReadVarint ==
    /\ wireInput.op = "read_varint"
    /\ wireResult = NoWire
    /\ \E r \in {read_varint64(wireInput.data, 0)} : wireResult' = r
    /\ UNCHANGED wireInput

(* read_varint on encode_varint of the input value *)
RoundTripVarint ==
    /\ wireInput.op = "round_trip"
    /\ wireResult = NoWire
    /\ \E r \in {read_varint64(encode_varint64(wireInput.value), 0)} : wireResult' = r
    /\ UNCHANGED wireInput

(* read_bytes on a length varint followed by the payload, cursor 0 *)
ReadBytes ==
    /\ wireInput.op = "read_bytes"
    /\ wireResult = NoWire
    /\ \E r \in {read_bytes_usize(wireInput.data, 0, wireInput.build)} : wireResult' = r
    /\ UNCHANGED wireInput

IdleRpc ==
    /\ config = [is_demo_active |-> TRUE, has_calculator |-> FALSE, blocked |-> {}]
    /\ phase = "off"
    /\ budget = 0
    /\ cyclesAvailable = 0
    /\ cyclesAccepted = 0
    /\ pending = {}
    /\ completed = <<>>
    /\ httpCalls = ZeroCount
    /\ metrics = EmptyMetrics
    /\ verdict = NoVerdict
    /\ result = NoResult
    /\ nextId = 0
    /\ payloadId = 0
    /\ sentPayloads = [p \in Providers |-> <<>>]

Init == InitRpc /\ IdleAbci /\ IdleSd /\ IdleWallet /\ IdleEnc /\ IdleQd /\ IdleGas /\ IdleSeq /\ IdleReg /\ IdleIds /\ IdleWire
Next ==
    \/ /\ \E b \in 0..MaxCycles : BeginCall(b)
       /\ UNCHANGED <<abciVars, sdVars, wVars, encVars, qdVars, gasVars, seqVars, regVars, idVars, wireVars>>
    \/ /\ \E p \in Providers, raw \in TransportResults : Respond(p, raw)
       /\ UNCHANGED <<abciVars, sdVars, wVars, encVars, qdVars, gasVars, seqVars, regVars, idVars, wireVars>>
Spec == Init /\ [][Next]_vars

\* A call that was made is run up to its first await, and the transport
\* answers every outstanding http_request, with a response or with a reject
\* (at the latest its own timeout): some provider leaves pending.
CallIsRun == WF_rpcVars(\E b \in 0..MaxCycles : BeginCall(b))
OutcomeDelivered == \E p \in pending : pending' = pending \ {p}
TransportReturns == WF_pending(OutcomeDelivered)
SpecLive == Init /\ [][Next]_vars /\ CallIsRun /\ TransportReturns

InitAccount == IdleRpc /\ InitAbci /\ IdleSd /\ IdleWallet /\ IdleEnc /\ IdleQd /\ IdleGas /\ IdleSeq /\ IdleReg /\ IdleIds /\ IdleWire
NextAccount == ParseAccount /\ UNCHANGED <<rpcVars, sdVars, wVars, encVars, qdVars, gasVars, seqVars, regVars, idVars, wireVars>>
SpecAccount == InitAccount /\ [][NextAccount]_vars

InitSignDoc == IdleRpc /\ IdleAbci /\ InitSd /\ IdleWallet /\ IdleEnc /\ IdleQd /\ IdleGas /\ IdleSeq /\ IdleReg /\ IdleIds /\ IdleWire
NextSignDoc == BuildSignDocs /\ UNCHANGED <<rpcVars, abciVars, wVars, encVars, qdVars, gasVars, seqVars, regVars, idVars, wireVars>>
SpecSignDoc == InitSignDoc /\ [][NextSignDoc]_vars

InitSend == IdleRpc /\ IdleAbci /\ IdleSd /\ InitWallet /\ IdleEnc /\ IdleQd /\ IdleGas /\ IdleSeq /\ IdleReg /\ IdleIds /\ IdleWire
NextSend ==
    \/ WalletStart /\ UNCHANGED <<rpcVars, abciVars, sdVars, encVars, qdVars, gasVars, seqVars, regVars, idVars, wireVars>>
    \/ WalletKeyFailed /\ UNCHANGED <<rpcVars, abciVars, sdVars, encVars, qdVars, gasVars, seqVars, regVars, idVars, wireVars>>
    \/ WalletKeyReturned /\ UNCHANGED <<rpcVars, abciVars, sdVars, encVars, qdVars, gasVars, seqVars, regVars, idVars, wireVars>>
    \/ /\ \E q \in QueryReplies : WalletQueryReturned(q, STR_provider)
       /\ UNCHANGED <<rpcVars, abciVars, sdVars, encVars, qdVars, gasVars, seqVars, regVars, idVars, wireVars>>
    \/ /\ \E r \in SignerReplies : WalletSignReturned(r)
       /\ UNCHANGED <<rpcVars, abciVars, sdVars, encVars, qdVars, gasVars, seqVars, regVars, idVars, wireVars>>
    \/ /\ \E b \in BroadcastReplies : WalletBroadcastReturned(b)
       /\ UNCHANGED <<rpcVars, abciVars, sdVars, encVars, qdVars, gasVars, seqVars, regVars, idVars, wireVars>>
SpecWallet == InitSend /\ [][NextSend]_vars

InitEncode == IdleRpc /\ IdleAbci /\ IdleSd /\ IdleWallet /\ InitEnc /\ IdleQd /\ IdleGas /\ IdleSeq /\ IdleReg /\ IdleIds /\ IdleWire
NextEncode == EncodeTransaction /\ UNCHANGED <<rpcVars, abciVars, sdVars, wVars, qdVars, gasVars, seqVars, regVars, idVars, wireVars>>
SpecEncode == InitEncode /\ [][NextEncode]_vars

InitQueryData == IdleRpc /\ IdleAbci /\ IdleSd /\ IdleWallet /\ IdleEnc /\ InitQd /\ IdleGas /\ IdleSeq /\ IdleReg /\ IdleIds /\ IdleWire
NextQueryData == BuildQueryData /\ UNCHANGED <<rpcVars, abciVars, sdVars, wVars, encVars, gasVars, seqVars, regVars, idVars, wireVars>>
SpecQueryData == InitQueryData /\ [][NextQueryData]_vars

InitEstimate == IdleRpc /\ IdleAbci /\ IdleSd /\ IdleWallet /\ IdleEnc /\ IdleQd /\ InitGas /\ IdleSeq /\ IdleReg /\ IdleIds /\ IdleWire
NextEstimate ==
    \/ /\ \E c \in CanisterReplies : EstimateGasStart(c)
       /\ UNCHANGED <<rpcVars, abciVars, sdVars, wVars, encVars, qdVars, seqVars, regVars, idVars, wireVars>>
    \/ /\ \E r \in SimulateReplies : EstimateGasReplied(r)
       /\ UNCHANGED <<rpcVars, abciVars, sdVars, wVars, encVars, qdVars, seqVars, regVars, idVars, wireVars>>
SpecEstimate == InitEstimate /\ [][NextEstimate]_vars

InitSequence == IdleRpc /\ IdleAbci /\ IdleSd /\ IdleWallet /\ IdleEnc /\ IdleQd /\ IdleGas /\ InitSeq /\ IdleReg /\ IdleIds /\ IdleWire
NextSequence ==
    \/ /\ \E i \in Invocations, memo \in {<<>>, <<109>>} : SendStart(i, OwnSend(memo))
       /\ UNCHANGED <<rpcVars, abciVars, sdVars, wVars, encVars, qdVars, gasVars, regVars, idVars, wireVars>>
    \/ /\ \E i \in Invocations : SendKeyReturned(i)
       /\ UNCHANGED <<rpcVars, abciVars, sdVars, wVars, encVars, qdVars, gasVars, regVars, idVars, wireVars>>
    \/ /\ \E i \in Invocations :
             \E q \in {ChainAccountReply(chainSequence),
                       [kind |-> "reject", code |-> 0, value |-> EmptyValue]} :
                SendQueryReturned(i, q)
       /\ UNCHANGED <<rpcVars, abciVars, sdVars, wVars, encVars, qdVars, gasVars, regVars, idVars, wireVars>>
    \/ /\ \E i \in Invocations, r \in SignerReplies : SendSignReturned(i, r)
       /\ UNCHANGED <<rpcVars, abciVars, sdVars, wVars, encVars, qdVars, gasVars, regVars, idVars, wireVars>>
    \/ /\ \E i \in Invocations, delivered \in BOOLEAN : SendBroadcastReturned(i, delivered)
       /\ UNCHANGED <<rpcVars, abciVars, sdVars, wVars, encVars, qdVars, gasVars, regVars, idVars, wireVars>>
SpecSequence == InitSequence /\ [][NextSequence]_vars

InitRegistry == IdleRpc /\ IdleAbci /\ IdleSd /\ IdleWallet /\ IdleEnc /\ IdleQd /\ IdleGas /\ IdleSeq /\ InitReg /\ IdleIds /\ IdleWire
NextRegistry ==
    \/ /\ \E caller \in Principals, principal \in Principals, auth \in Auths :
             Authorize(caller, principal, auth)
       /\ UNCHANGED <<rpcVars, abciVars, sdVars, wVars, encVars, qdVars, gasVars, seqVars, idVars, wireVars>>
    \/ /\ \E caller \in Principals, principal \in Principals, auth \in Auths :
             Deauthorize(caller, principal, auth)
       /\ UNCHANGED <<rpcVars, abciVars, sdVars, wVars, encVars, qdVars, gasVars, seqVars, idVars, wireVars>>
    \/ /\ \E caller \in Principals, id \in ProviderIds : RegisterProvider(caller, id)
       /\ UNCHANGED <<rpcVars, abciVars, sdVars, wVars, encVars, qdVars, gasVars, seqVars, idVars, wireVars>>
    \/ /\ \E caller \in Principals, id \in ProviderIds : UnregisterProvider(caller, id)
       /\ UNCHANGED <<rpcVars, abciVars, sdVars, wVars, encVars, qdVars, gasVars, seqVars, idVars, wireVars>>
    \/ /\ \E args \in InitArgsValues : UpgradeCanister(args)
       /\ UNCHANGED <<rpcVars, abciVars, sdVars, wVars, encVars, qdVars, gasVars, seqVars, idVars, wireVars>>
SpecRegistry == InitRegistry /\ [][NextRegistry]_vars

InitRequestIds == IdleRpc /\ IdleAbci /\ IdleSd /\ IdleWallet /\ IdleEnc /\ IdleQd /\ IdleGas /\ IdleSeq /\ IdleReg /\ InitIds /\ IdleWire
NextRequestIds ==
    \/ /\ \E c \in Clients : IdsCall(c)
       /\ UNCHANGED <<rpcVars, abciVars, sdVars, wVars, encVars, qdVars, gasVars, seqVars, regVars, wireVars>>
    \/ /\ \E c \in Clients, n \in 2..3 : IdsBatchCall(c, n)
       /\ UNCHANGED <<rpcVars, abciVars, sdVars, wVars, encVars, qdVars, gasVars, seqVars, regVars, wireVars>>
SpecRequestIds == InitRequestIds /\ [][NextRequestIds]_vars

InitWirePrimitives == IdleRpc /\ IdleAbci /\ IdleSd /\ IdleWallet /\ IdleEnc /\ IdleQd /\ IdleGas /\ IdleSeq /\ IdleReg /\ IdleIds /\ InitWire
NextWirePrimitives ==
    \/ /\ ReadVarint
       /\ UNCHANGED <<rpcVars, abciVars, sdVars, wVars, encVars, qdVars, gasVars, seqVars, regVars, idVars>>
    \/ /\ RoundTripVarint
       /\ UNCHANGED <<rpcVars, abciVars, sdVars, wVars, encVars, qdVars, gasVars, seqVars, regVars, idVars>>
    \/ /\ ReadBytes
       /\ UNCHANGED <<rpcVars, abciVars, sdVars, wVars, encVars, qdVars, gasVars, seqVars, regVars, idVars>>
SpecWirePrimitives == InitWirePrimitives /\ [][NextWirePrimitives]_vars

----------------------------------------------------------------------------
(* Properties of the client *)

\* the per-provider outcomes of the finished call, in provider order
Outs == JoinAll(completed)

OutcomesAgree == \A i, j \in Providers : Outs[i] = Outs[j]

\* C1 (as claimed): whenever the outcomes of a finished call are not all
\* equal, the caller gets InconsistentResponse with exactly one entry per
\* provider, never one provider's own error.
C1_DisagreementReportsEveryProvider ==
    (phase = "reduced" /\ ~OutcomesAgree) =>
        /\ result.tag = "Err"
        /\ result.error.kind = "InconsistentResponse"
        /\ Len(result.list) = NumProviders
        /\ \A p \in Providers :
              Cardinality({i \in 1..Len(result.list) : result.list[i].p = p}) = 1

\* C2 (as claimed): with cycle accounting on and a budget below the cost of
\* the N requests, no outcall is made, no cycles are accepted and the call
\* ends with the insufficient-cycles error.
C2_NoPartialSpend ==
    ( /\ phase # "idle"
      /\ ~config.is_demo_active
      /\ config.blocked = {}
      /\ budget < NumProviders * RequestCost(config).cost ) =>
        /\ \A p \in Providers : httpCalls[p] = 0
        /\ cyclesAccepted = 0
        /\ phase = "reduced"
        /\ result.tag = "Err"
        /\ result.error.kind = "InsufficientCycles"

\* C3 (as claimed): equal outcomes of all N providers give that outcome:
\* equal bodies give Consistent, returned as Ok; equal failures give
\* ConsistentError, returned as that error.
C3_AgreementReturnedAsOk ==
    (phase = "reduced" /\ OutcomesAgree) =>
        IF Outs[1].tag = "Ok"
        THEN /\ verdict.kind = "Consistent"
             /\ verdict.out = Outs[1]
             /\ result = ResOk(Outs[1].body)
        ELSE /\ verdict.kind = "ConsistentError"
             /\ verdict.out = Outs[1]
             /\ result = ResErr(Outs[1].error)

\* C3 (amended): equal outcomes of all N providers give that outcome as the
\* verdict; an agreed body is returned as Ok when it deserializes as a
\* JSON-RPC response and as a parse error when it does not; an agreed
\* failure is returned as that error.
C3_AgreementIsTheVerdict ==
    (phase = "reduced" /\ OutcomesAgree) =>
        IF Outs[1].tag = "Ok"
        THEN /\ verdict.kind = "Consistent"
             /\ verdict.out = Outs[1]
             /\ result = IF IsJson(Outs[1].body)
                         THEN ResOk(Outs[1].body)
                         ELSE ResErr(RpcErr("ParseError", 1, 0))
        ELSE /\ verdict.kind = "ConsistentError"
             /\ verdict.out = Outs[1]
             /\ result = ResErr(Outs[1].error)

C3_Witness ==
    /\ phase = "reduced"
    /\ OutcomesAgree
    /\ \A i \in 1..Len(completed) : completed[i].raw.kind = "response"
    /\ Outs[1].tag = "Ok"
    /\ result.tag = "Ok"

Range(s) == {s[i] : i \in 1..Len(s)}

Perms(s) ==
    {q \in [1..Len(s) -> Range(s)] : \A e \in Range(s) : \E i \in 1..Len(s) : q[i] = e}

\* C4: the verdict and the result of a finished call are the same for every
\* order in which the provider requests could have completed.
C4_CompletionOrderIrrelevant ==
    phase = "reduced" =>
        \A q \in Perms(completed) :
            LET f == CallFinish(q, EmptyMetrics)
            IN f.verdict = verdict /\ f.result = result

C4_Witness ==
    /\ phase = "reduced"
    /\ completed[1].p # 1
    /\ completed[1].raw.kind # "none"
    /\ ~OutcomesAgree

\* C5 (as claimed): a provider answered with a non-2xx status counts as a
\* failure, never as a success carrying the body.
C5_Non2xxIsFailure ==
    \A i \in 1..Len(completed) :
        (completed[i].raw.kind = "response" /\ ~Is2xx(completed[i].raw.status))
            => completed[i].out.tag = "Err"

\* C21: no verdict and no result exist while a provider request of the call
\* is outstanding, whatever the outcomes already received; a call that has
\* been reduced has collected the outcome of every provider.
C21_ReduceAfterAllCollected ==
    /\ pending # {} =>
          /\ phase = "collecting"
          /\ verdict = NoVerdict
          /\ result = NoResult
    /\ (verdict # NoVerdict \/ result # NoResult) =>
          /\ phase = "reduced"
          /\ pending = {}
          /\ \A p \in Providers :
                Cardinality({i \in 1..Len(completed) : completed[i].p = p}) = 1

\* one provider has answered while another request is still outstanding
C21_Witness ==
    /\ phase = "collecting"
    /\ pending # {}
    /\ \E i \in 1..Len(completed) : completed[i].raw.kind = "response"
    /\ verdict = NoVerdict

\* provider p was turned away by call_internal before any outcall: its host
\* is not allowed or the cycles check failed
RefusedLocally(p) ==
    \E i \in 1..Len(completed) : completed[i].p = p /\ completed[i].raw = NoRaw

\* C22 (as claimed): once a call is dispatched every provider has been sent
\* exactly one HTTP request, and that request carries the request id of the
\* call, whatever the outcomes.
C22_OneRequestPerProvider ==
    phase \in {"collecting", "reduced"} =>
        \A p \in Providers :
            /\ httpCalls[p] = 1
            /\ sentPayloads[p] = <<payloadId>>

\* C22 (amended): once a call is dispatched every provider that passed the
\* host and cycles checks has been sent exactly one HTTP request and every
\* other provider none; every request carries the request id of the call,
\* and no provider is requested a second time whatever the outcomes.
C22_OneRequestPerAdmittedProvider ==
    phase \in {"collecting", "reduced"} =>
        \A p \in Providers :
            /\ httpCalls[p] = (IF RefusedLocally(p) THEN 0 ELSE 1)
            /\ Len(sentPayloads[p]) = httpCalls[p]
            /\ \A i \in 1..Len(sentPayloads[p]) : sentPayloads[p][i] = payloadId

\* a finished call in which a request failed and one provider was refused
C22_Witness ==
    /\ phase = "reduced"
    /\ \E p \in Providers : RefusedLocally(p) /\ httpCalls[p] = 0
    /\ \E i \in 1..Len(completed) :
          /\ completed[i].raw.kind = "reject"
          /\ sentPayloads[completed[i].p] = <<payloadId>>

\* C23 (as claimed): a call reduced to Inconsistent has bumped
\* inconsistent_responses by one for every provider of the breakdown, also
\* when some outcomes are failures; a call reduced to Consistent or
\* ConsistentError has left inconsistent_responses alone.
C23_InconsistentCountsEveryProvider ==
    phase = "reduced" =>
        IF verdict.kind = "Inconsistent"
        THEN \A i \in 1..Len(verdict.list) :
                metrics.inconsistent_responses[verdict.list[i].p] = 1
        ELSE metrics.inconsistent_responses = ZeroCount

\* the outcome delivered in this step, when the step is a provider's callback
Delivered == completed'[Len(completed')]

\* C25 (as claimed): the requests counter of a provider moves with the
\* outcalls dispatched to it, one for one; a request answered with HTTP
\* status s adds one to responses[host][s] and leaves err_http_outcall and
\* err_host_not_allowed alone, and leaves inconsistent_responses alone unless
\* the answer completes a call that reduces to Inconsistent.
C25_MetricsOncePerOutcome ==
    [][ /\ \A p \in Providers :
              metrics'.requests[p] - metrics.requests[p] = httpCalls'[p] - httpCalls[p]
        /\ \A p \in pending \ pending' :
              Delivered.raw.kind = "response" =>
                 /\ metrics'.responses[p][Delivered.raw.status]
                        = metrics.responses[p][Delivered.raw.status] + 1
                 /\ metrics'.err_http_outcall = metrics.err_http_outcall
                 /\ metrics'.err_host_not_allowed = metrics.err_host_not_allowed
                 /\ verdict'.kind # "Inconsistent" =>
                        metrics'.inconsistent_responses = metrics.inconsistent_responses
      ]_vars

Verdicts == {"Consistent", "ConsistentError", "Inconsistent"}

\* the steps of a call: Pending is phase "idle", Dispatched(n) and
\* Collecting(k of n) are phase "collecting" with n requests issued and k
\* outcomes in completed, Reduced is phase "reduced"
LifecycleStep ==
    \/ /\ phase = "idle"
       /\ phase' \in {"collecting", "reduced"}
       /\ phase' = "collecting" => pending' # {}
    \/ /\ phase = "collecting"
       /\ phase' \in {"collecting", "reduced"}
       /\ Len(completed') = Len(completed) + 1
       /\ Cardinality(pending') = Cardinality(pending) - 1
       /\ phase' = "reduced" <=> pending' = {}

\* C28: a call goes from Pending through Dispatched and Collecting to
\* Reduced in that order; when the call is run and every transport call
\* returns it reaches Reduced, with one of the three verdicts, and nothing
\* changes once it is Reduced.
C28_CallLifecycle ==
    /\ [][LifecycleStep]_vars
    /\ [](phase = "reduced" => (verdict.kind \in Verdicts /\ pending = {}))
    /\ [](phase # "reduced" => verdict = NoVerdict)
    /\ (phase \in {"idle", "collecting"}) ~> (phase = "reduced")

\* a call that collected an answer from every provider and was reduced to a
\* disagreement
C28_Witness ==
    /\ phase = "reduced"
    /\ verdict.kind = "Inconsistent"
    /\ Len(completed) = NumProviders
    /\ \A i \in 1..Len(completed) : completed[i].raw.kind = "response"

----------------------------------------------------------------------------
(* Properties of the account decoder *)

AccountMissing(in) ==
    \/ in.top # "account"
    \/ in.any = "novalue"
    \/ FieldValue(in.fields, 3) = 0

\* C7 (as claimed): the decoder never returns Ok with account_number 0; a
\* response without account, an Any without value, or a BaseAccount whose
\* account_number is 0 or absent is an error; an Ok result carries the
\* values of BaseAccount fields 3 and 4.
C7_AccountGate ==
    abciPc = "done" =>
        /\ abciResult.ok => abciResult.account_number # 0
        /\ AccountMissing(abciInput) => ~abciResult.ok
        /\ abciResult.ok =>
              /\ abciResult.account_number = FieldValue(abciInput.fields, 3)
              /\ abciResult.sequence = FieldValue(abciInput.fields, 4)

\* the decoder gets as far as the BaseAccount bytes of the input
ReachesBaseAccount(in) == in.base64_ok /\ in.top = "account" /\ in.any = "full"

\* C13 (as claimed): every field met is consumed by its wire type, and a
\* wire type other than 0 and 2 makes decoding fail; so a BaseAccount that
\* holds a field of another wire type is never decoded to Ok, its payload
\* bytes being neither skipped nor read as tags.
C13_FieldsConsumedByWireType ==
    (abciPc = "done" /\ ReachesBaseAccount(abciInput)) =>
        ( (\E i \in 1..Len(abciInput.fields) : abciInput.fields[i].wire \notin {0, 2})
            => ~abciResult.ok )

----------------------------------------------------------------------------
(* Properties of send_cosmos_transaction *)

\* base64 STANDARD.decode of a text made by Base64Encode
Base64Decode(text) ==
    LET groups == Len(text) \div 4
        pad == IF groups = 0 THEN 0
               ELSE IF text[Len(text) - 1] = 64 THEN 2
               ELSE IF text[Len(text)] = 64 THEN 1 ELSE 0
        s(k) == IF text[k] = 64 THEN 0 ELSE text[k]
        byte(i) ==
            LET g == (i - 1) \div 3
                j == (i - 1) % 3
            IN IF j = 0 THEN s(4 * g + 1) * 4 + s(4 * g + 2) \div 16
               ELSE IF j = 1 THEN (s(4 * g + 2) % 16) * 16 + s(4 * g + 3) \div 4
               ELSE (s(4 * g + 3) % 4) * 64 + s(4 * g + 4)
    IN [i \in 1..(3 * groups - pad) |-> byte(i)]

\* the top-level fields of a Tx, in order
RECURSIVE TxFields(_, _)
TxFields(data, pos) ==
    IF pos >= Len(data) THEN <<>>
    ELSE LET rb == read_bytes(data, pos + 1) IN
         IF data[pos + 1] % 8 # 2 \/ ~rb.ok
         THEN <<[num |-> 0, payload |-> <<>>]>>
         ELSE <<[num |-> data[pos + 1] \div 8, payload |-> rb.bytes]>>
              \o TxFields(data, rb.pos)

IsSignatureField(f) == f.num = 3
BroadcastSignatures == SelectSeq(TxFields(Base64Decode(wBroadcast), 0), IsSignatureField)

\* C6: a signature of fewer than 64 bytes ends the invocation with
\* "Signature too short" and nothing is broadcast; a signature of 64 bytes
\* or more is accepted, and the broadcast Tx then carries exactly one
\* signature, the first 64 bytes of what the signer returned.
C6_SignatureGate ==
    /\ (wSigner.ok /\ Len(wSigner.signature) < SignatureLength) =>
          /\ wPc = "done"
          /\ wResult = WErr("Signature too short")
          /\ wCalls.broadcast = 0
          /\ wBroadcast = <<>>
    /\ (wSigner.ok /\ Len(wSigner.signature) >= SignatureLength) =>
          wCalls.broadcast = 1
    /\ wCalls.broadcast > 0 =>
          /\ Len(BroadcastSignatures) = 1
          /\ Len(BroadcastSignatures[1].payload) = SignatureLength
          /\ BroadcastSignatures[1].payload =
                SubSeq(wSigner.signature, 1, SignatureLength)

\* a 70-byte signature came back and the transaction was broadcast
C6_Witness ==
    /\ wPc = "done"
    /\ wResult.tag = "Ok"
    /\ wCalls.broadcast = 1
    /\ Len(wSigner.signature) = 70

QueryUsable(q) ==
    /\ q.kind = "ok"
    /\ q.code = 0
    /\ ~q.value.empty
    /\ q.value.base64_ok
    /\ ~AccountMissing(q.value)

\* C8 (as claimed): sign_with_ecdsa and the broadcast are called only after
\* the account query returned code 0 with a non-empty value whose
\* account_number is not 0; a failed query, a non-zero code, an empty value
\* or account_number 0 ends the invocation with an error and neither call
\* is made; the broadcast is called only after a successful sign.
C8_SignOnlyAfterValidAccount ==
    /\ (wCalls.sign > 0 \/ wCalls.broadcast > 0) => QueryUsable(wQuery)
    /\ (wQuery.kind # "none" /\ ~QueryUsable(wQuery)) =>
          /\ wPc = "done"
          /\ wResult.tag = "Err"
          /\ wCalls.sign = 0
          /\ wCalls.broadcast = 0
    /\ wCalls.broadcast > 0 => (wCalls.sign > 0 /\ wSigner.ok)

SignerTypes ==
    {STR_MsgSend, STR_MsgDelegate, STR_MsgUndelegate, STR_MsgBeginRedelegate,
     STR_MsgWithdrawDelegatorReward}

\* the signer field of a JSON message: from_address for MsgSend,
\* delegator_address for the staking and distribution messages
SignerField(m) ==
    IF m.type.s = STR_MsgSend THEN m.value.from_address ELSE m.value.delegator_address

\* the message is not one the caller's own address signs
NotOurs(m) ==
    \/ ~m.type.some
    \/ m.type.s \notin SignerTypes
    \/ ~SignerField(m).some
    \/ SignerField(m).s # OurAddress

RefusedMessages ==
    /\ wRaw.json_ok
    /\ wRaw.messages.present
    /\ \/ wRaw.messages.list = <<>>
       \/ \E i \in 1..Len(wRaw.messages.list) : NotOurs(wRaw.messages.list[i])

\* C29: when the message list is empty, or some message names another
\* address, lacks its signer field or has an unsupported type_url, no
\* account query, signature or broadcast is ever requested, and the call
\* ends with an error.
C29_OnlyOwnSignersAreSigned ==
    RefusedMessages =>
        /\ wCalls.query = 0
        /\ wCalls.sign = 0
        /\ wCalls.broadcast = 0
        /\ wResult.tag # "Ok"
        /\ wPc = "done" => wResult.tag = "Err"

\* the second message of the transaction names another address, and the
\* call has ended after the public key was fetched
C29_Witness ==
    /\ wPc = "done"
    /\ Len(wRaw.messages.list) = 2
    /\ ~NotOurs(wRaw.messages.list[1])
    /\ NotOurs(wRaw.messages.list[2])
    /\ wCalls.pk = 1
    /\ wCalls.query = 0
    /\ wResult.tag = "Err"

----------------------------------------------------------------------------
(* Properties of the transaction encoders *)

DecodedTx == DecodeTx(Base64Decode(encTx.bytes))

\* C11: the Tx built by build_transaction_for_broadcast, read back by a
\* protobuf decoder, holds the messages of the input in order (type_url and
\* every field of the value), the memo, the fee coins, the gas_limit, one
\* signer with the public key and the sequence, and the one signature.
C11_TxRoundTrip ==
    (encPc = "done" /\ encTx.ok) =>
        /\ DecodedTx.ok
        /\ DecodedTx.messages = encInput.transaction.messages
        /\ DecodedTx.memo = encInput.transaction.memo
        /\ DecodedTx.timeout_height = 0
        /\ DecodedTx.fee.amount = encInput.transaction.fee
        /\ DecodedTx.fee.gas_limit = encInput.transaction.gas_limit
        /\ Len(DecodedTx.signer_infos) = 1
        /\ DecodedTx.signer_infos[1].public_key_type = STR_PubKey
        /\ DecodedTx.signer_infos[1].public_key = encInput.public_key
        /\ DecodedTx.signer_infos[1].mode = SignModeDirect
        /\ DecodedTx.signer_infos[1].sequence = encInput.transaction.sequence
        /\ DecodedTx.signatures = <<encInput.signature>>

\* two messages, one of them a send of a zero-amount coin, with an empty
\* memo, an empty fee list and sequence 0, were encoded
C11_Witness ==
    /\ encPc = "done"
    /\ encTx.ok
    /\ Len(encInput.transaction.messages) = 2
    /\ encInput.transaction.messages[1].type_url = STR_MsgDelegate
    /\ encInput.transaction.messages[2].value.amount.coins =
          <<Coin(Some(STR_uatom), Some(<<48>>))>>
    /\ encInput.transaction.memo = <<>>
    /\ encInput.transaction.fee = <<>>
    /\ encInput.transaction.sequence = 0

SupportedTypes ==
    {STR_MsgSend, STR_MsgDelegate, STR_MsgUndelegate, STR_MsgBeginRedelegate,
     STR_MsgWithdrawDelegatorReward}

EncMessage(i) == encInput.transaction.messages[i]
Unsupported(i) == EncMessage(i).type_url \notin SupportedTypes

NamesTypeUrl(r, type_url) ==
    /\ ~r.ok
    /\ r.bytes = <<>>
    /\ r.err = "Unsupported message type"
    /\ r.type_url = type_url

LeadingFields(data) ==
    LET first == read_bytes(data, 1)
        second == read_bytes(data, first.pos + 1)
    IN [ok |-> /\ Len(data) > 0 /\ data[1] = 10 /\ first.ok
               /\ Len(data) > first.pos /\ data[first.pos + 1] = 18 /\ second.ok,
        body |-> first.bytes,
        auth_info |-> second.bytes]

\* C30: for one CosmosTransaction and public key the two encoders fail
\* together or succeed together, and when they succeed the body and
\* auth_info payloads inside the broadcast Tx are the body_bytes and
\* auth_info_bytes inside the SignDoc, byte for byte.
C30_BroadcastIsWhatWasSigned ==
    encPc = "done" =>
        /\ encTx.ok <=> encSignDoc.ok
        /\ encTx.ok =>
              LET tx == LeadingFields(Base64Decode(encTx.bytes))
                  sign_doc == LeadingFields(encSignDoc.bytes)
              IN /\ tx.ok
                 /\ sign_doc.ok
                 /\ tx.body = sign_doc.body
                 /\ tx.auth_info = sign_doc.auth_info

\* a transaction with a memo, a fee coin and a non-zero sequence was encoded
\* by both functions
C30_Witness ==
    /\ encPc = "done"
    /\ encTx.ok
    /\ encSignDoc.ok
    /\ encInput.transaction.memo # <<>>
    /\ encInput.transaction.fee # <<>>
    /\ encInput.transaction.sequence = 300
    /\ Len(encInput.transaction.messages) = 1

----------------------------------------------------------------------------
(* Properties of the account query data *)

\* C14 (as claimed): for every address the query data is the hex text of
\* encode_length_delimited(0x0a, address): 0x0a, the varint of the byte
\* length, the address bytes.
C14_QueryDataIsLengthDelimited ==
    qdPc = "done" => qdData = HexEncode(encode_length_delimited(10, qdAddress))

----------------------------------------------------------------------------
(* Properties of estimate_gas_for_transaction *)

\* the simulation failed: an RPC error object, a non-zero response code, a
\* missing or undecodable response value, or a gas_used outside the band
SimulationFailed(reply) ==
    \/ reply.has_error
    \/ reply.code # 0
    \/ reply.value.kind # "bytes"
    \/ ~gas_in_band(reply.gas_used)

Simulated == gasPc = "done" /\ gasReply.transport = "ok"

\* C15 (as claimed): once the node has answered the Simulate request, every
\* simulation failure (RPC error object, non-zero code, missing or
\* undecodable value, gas_used outside 50,000 < gas_used < 2,000,000) makes
\* the estimate Ok(static constant of the first message's type), never an
\* Err, and an estimate other than that constant is gas_used times the
\* buffer of the message type, for a gas_used inside the band.
C15_FallbackOnAnySimulationFailure ==
    Simulated =>
        /\ SimulationFailed(gasReply) =>
              gasResult = GasOk(fallback_gas(first_message_type(gasTx)))
        /\ gasResult.ok
        /\ gasResult # GasOk(fallback_gas(first_message_type(gasTx))) =>
              /\ gas_in_band(gasReply.gas_used)
              /\ gasResult = GasOk(with_buffer(gasReply.gas_used, first_message_type(gasTx)))

----------------------------------------------------------------------------
(* Properties of concurrent sendCosmosTransaction calls *)

\* C16 (as claimed): whatever the interleaving of the calls of one caller,
\* no two SignDocs handed to the signer carry the same sequence number.
C16_SignedSequencesDistinct ==
    \A i, j \in 1..Len(signDocs) :
        i # j => SignDocSequence(signDocs[i]) # SignDocSequence(signDocs[j])

----------------------------------------------------------------------------
(* Properties of the registry endpoints *)

\* the caller of the last call was a controller or held `auth` when calling
CallerAllowed(auth) ==
    is_controller(lastCall.caller) \/ auth \in lastCall.before.auth[lastCall.caller]

RequiredAuth(method) ==
    IF method \in {"authorize", "deauthorize"} THEN "Manage" ELSE "RegisterProvider"

GuardedMethods == {"authorize", "deauthorize", "registerProvider", "unregisterProvider"}

----------------------------------------------------------------------------
(* Properties of the request ids *)

\* C24 (as claimed): every id returned by next_request_id is strictly
\* greater than every id returned before it, across calls, batch entries
\* and clients; in particular no two requests get the same id.
C24_IdsStrictlyIncreasing ==
    \A i, j \in 1..Len(issued) : i < j => issued[i].id < issued[j].id

\* C24 (amended): each id is the one before it plus one modulo the width of
\* the counter, across calls, batch entries and clients; so until the
\* counter has wrapped every id is strictly greater than every id before it
\* and no two requests get the same id.
C24_IdsConsecutiveModulo ==
    /\ \A i \in 1..Len(issued) : issued[i].id = (i - 1) % IdModulus
    /\ \A i, j \in 1..Len(issued) :
          (i < j /\ j <= IdModulus) => issued[i].id < issued[j].id
    /\ NEXT_ID = Len(issued) % IdModulus

\* both clients have drawn ids, one of them for a batch, and the counter has
\* gone through its whole range
C24_Witness ==
    /\ Len(issued) > IdModulus
    /\ issued[Len(issued)].id = 0
    /\ \E i \in 1..(Len(issued) - 1) :
          /\ issued[i].client # issued[i + 1].client
          /\ issued[i + 1].id = issued[i].id + 1

----------------------------------------------------------------------------
(* Properties of the wire primitives *)

\* the bytes of the varint at the head of data: up to the first byte
\* without the continuation bit, or all of data
VarintBytes(data) ==
    IF \E i \in 1..Len(data) : data[i] < 128
    THEN SubSeq(data, 1, CHOOSE i \in 1..Len(data) :
                            data[i] < 128 /\ \A j \in 1..(i - 1) : data[j] >= 128)
    ELSE data

VarintTerminated(data) == \E i \in 1..Len(data) : data[i] < 128

\* the payload bits of the varint do not fit in 64 bits
DenotesOverflow(data) ==
    /\ VarintTerminated(data)
    /\ \E i \in 1..Len(VarintBytes(data)) :
          \/ i = 10 /\ data[i] % 128 >= 2
          \/ i > 10 /\ data[i] % 128 # 0

ContinuationBytes(data) == Cardinality({i \in 1..Len(VarintBytes(data)) : data[i] >= 128})

\* C26 (as claimed): read_varint gives back v on encode_varint(v) for every
\* 64-bit v, and fails with "Varint too long" on every input whose varint
\* denotes a value of 2^64 or more or has more than 10 continuation bytes.
C26_VarintOverflowGuard ==
    /\ (wireInput.op = "round_trip" /\ wireResult # NoWire) =>
          /\ wireResult.status = "ok"
          /\ wireResult.value = wireInput.value
          /\ wireResult.pos = Len(encode_varint64(wireInput.value))
    /\ ( /\ wireInput.op = "read_varint"
         /\ wireResult # NoWire
         /\ DenotesOverflow(wireInput.data) \/ ContinuationBytes(wireInput.data) > 10 ) =>
          /\ wireResult.status = "err"
          /\ wireResult.err = "Varint too long"

\* the bytes that follow the length varint of a read_bytes input
Remaining == Len(wireInput.data) - Len(encode_varint64(wireInput.value))

\* C27 (as claimed): whenever the declared length exceeds the bytes that
\* remain after the length varint, read_bytes fails with "Length exceeds
\* remaining data": it neither panics nor returns bytes, for every declared
\* length up to 2^64 - 1 and whatever the build.
C27_TruncatedLengthIsAnError ==
    ( /\ wireInput.op = "read_bytes"
      /\ wireResult # NoWire
      /\ U64Exceeds(wireInput.value, Remaining) ) =>
        /\ wireResult.status = "err"
        /\ wireResult.err = "Length exceeds remaining data"

----------------------------------------------------------------------------
(* Properties of the SignDoc encoders *)

\* C9 (as claimed): for the same field values the hand-rolled
\* create_sign_doc_bytes and the reference protobuf encoding of
\* create_send_transaction give byte-identical sign bytes.
C9_SignBytesMatchReference ==
    sdPc = "done" =>
        /\ sdHand.ok
        /\ sdRef.ok
        /\ sdHand.bytes = sdRef.sign_bytes

====
